---- MODULE Spec2Model ----
(***************************************************************************)
(* A model of the rustzork Z-machine (version 3) interpreter, src/main.rs. *)
(*                                                                         *)
(* The state is the machine's: the memory image (a byte array), the        *)
(* evaluation stack, the frame stack, ip and finished.  One action models  *)
(* one opcode handler of Machine::execute together with the bookkeeping    *)
(* Machine::step does around it.  The instruction the decoder would        *)
(* produce at ip is the action's input.                                    *)
(***************************************************************************)
EXTENDS Integers, Sequences, FiniteSets, TLC

\* ------------------------------------------------------------------------
\* Bounds of the model
\* ------------------------------------------------------------------------

\* Objects in the object table of the image.
NumObjects == 4
\* Global variables the image holds (G00 .. ).
NumGlobals == 2
\* Bytes of the code window of the images the object tree is exercised on:
\* instructions are executed at ip in CodeBase .. CodeBase + CodeLen - 1.
CodeLen == 5

\* ------------------------------------------------------------------------
\* Program constants
\* ------------------------------------------------------------------------

OBJECT_SIZE == 9
NUM_DEFAULTS == 31
DEFAULT_TABLE_SIZE == NUM_DEFAULTS * 2
\* Bytes of the story-file header (the last header word the code reads is
\* the checksum at 0x1c).
HeaderLen == 32

Byte == 0 .. 255
Pow2(n) == 2 ^ n

Min(a, b) == IF a < b THEN a ELSE b

\* The element of a set of one element: The({e(x) : x \in {v}}) is e(v),
\* with v computed once.
The(S) == CHOOSE v \in S : TRUE

\* A u32 as its two 16-bit halves, and its bit n (bit 0 the lowest).
U32(hi, lo) == [hi |-> hi, lo |-> lo]
SetBit16(w, n) == IF (w \div Pow2(n)) % 2 = 1 THEN w ELSE w + Pow2(n)
ClearBit16(w, n) == IF (w \div Pow2(n)) % 2 = 1 THEN w - Pow2(n) ELSE w
\* A faulty SetBit: the bits numbered from the other end of the word.
SetBitMirrored(w, n) ==
    IF n < 16 THEN [w EXCEPT !.hi = SetBit16(w.hi, 15 - n)]
    ELSE [w EXCEPT !.lo = SetBit16(w.lo, 31 - n)]
SetBit(w, n) ==
    IF n >= 16 THEN [w EXCEPT !.hi = SetBit16(w.hi, n - 16)]
    ELSE [w EXCEPT !.lo = SetBit16(w.lo, n)]
ClearBit(w, n) ==
    IF n >= 16 THEN [w EXCEPT !.hi = ClearBit16(w.hi, n - 16)]
    ELSE [w EXCEPT !.lo = ClearBit16(w.lo, n)]
TestBit(w, n) ==
    IF n >= 16 THEN (w.hi \div Pow2(n - 16)) % 2 = 1
    ELSE (w.lo \div Pow2(n)) % 2 = 1

\* ------------------------------------------------------------------------
\* Memory: Memory::read_u8, read_u16, write_u8, write_u16.  The image is a
\* function from the addresses 0 .. len-1 to bytes; an access outside it
\* panics (a Vec index out of range), which the callers test with InMem.
\* ------------------------------------------------------------------------

InMem(m, a) == a \in DOMAIN m
InMem16(m, a) == a \in DOMAIN m /\ (a + 1) \in DOMAIN m

read_u8(m, a) == m[a]
read_u16(m, a) == m[a] * 256 + m[a + 1]

write_u8(m, a, val) == [m EXCEPT ![a] = val % 256]
write_u16(m, a, val) ==
    [m EXCEPT ![a] = (val \div 256) % 256, ![a + 1] = val % 256]

\* ------------------------------------------------------------------------
\* ZString (the packed text codec).  A decoded string is
\* [ok, length, contents]: ok is FALSE when the decoding panics (a read
\* outside the image, an unwrap of a missing code, a byte that is not
\* UTF-8, an abbreviation that refers to itself), length is the number of
\* bytes the packed string occupies and contents the sequence of character
\* codes.
\* ------------------------------------------------------------------------

ZFail == [ok |-> FALSE, length |-> 0, contents |-> <<>>]

\* A faulty variant of the alphabet of ZStringShift::One: lower case.
AlphabetOne_lower == [k \in 1 .. 32 |-> IF k <= 6 THEN 95 ELSE 97 + (k - 7)]

\* The three alphabets of ZString::with_bytes as character codes, indexed
\* from 1 (code c is at position c + 1).
AlphabetZero == [k \in 1 .. 32 |-> IF k <= 6 THEN 95 ELSE 97 + (k - 7)]
AlphabetOne == [k \in 1 .. 32 |-> IF k <= 6 THEN 95 ELSE 65 + (k - 7)]
AlphabetTwo ==
    <<95, 95, 95, 95, 95, 95, 94, 10, 48, 49, 50, 51, 52, 53, 54, 55, 56, 57,
      46, 44, 33, 63, 95, 35, 39, 34, 47, 92, 45, 58, 40, 41>>
Alphabet(shift) ==
    IF shift = 0 THEN AlphabetZero
    ELSE IF shift = 1 THEN AlphabetOne ELSE AlphabetTwo

\* The loop of ZString::new: the 5-bit codes of the words from offset on,
\* up to and including the first word whose top bit is set.
RECURSIVE ZWords(_, _, _)
ZWords(m, offset, length) ==
    IF ~InMem16(m, offset + length)
    THEN [ok |-> FALSE, length |-> 0, bytes |-> <<>>]
    ELSE LET x == read_u16(m, offset + length)
             cs == <<(x \div 1024) % 32, (x \div 32) % 32, x % 32>>
         IN  IF x >= 32768
             THEN [ok |-> TRUE, length |-> length + 2, bytes |-> cs]
             ELSE LET r == ZWords(m, offset, length + 2)
                  IN  [ok |-> r.ok, length |-> r.length,
                       bytes |-> cs \o r.bytes]

RECURSIVE with_bytes(_, _, _, _, _)
RECURSIVE ZStringNewF(_, _, _)

\* ZString::with_bytes from the k-th code on, in shift state shift (0, 1, 2
\* for ZStringShift::Zero, One, Two).  fuel bounds the nesting of
\* abbreviations (negative: not yet counted): more nested abbreviations than
\* the image has bytes is an abbreviation that refers to itself, a recursion
\* that never ends.
with_bytes(m, bytes, k, shift, fuel) ==
    IF k > Len(bytes) THEN [ok |-> TRUE, contents |-> <<>>]
    ELSE LET c == bytes[k]
             Rest(n, sh, emitted) ==
                 LET r == with_bytes(m, bytes, n, sh, fuel)
                 IN  [ok |-> r.ok, contents |-> emitted \o r.contents]
             Bad == [ok |-> FALSE, contents |-> <<>>]
         IN  IF c = 0 THEN Rest(k + 1, shift, <<32>>)
             ELSE IF c \in {1, 2, 3}
             THEN IF k + 1 > Len(bytes) \/ ~InMem16(m, 24) THEN Bad
                  ELSE LET abbrev == bytes[k + 1]
                           table == read_u16(m, 24)
                           index == 32 * (c - 1) + abbrev
                           left == IF fuel < 0 THEN Cardinality(DOMAIN m)
                                   ELSE fuel
                       IN  IF ~InMem16(m, table + index * 2) \/ left = 0
                           THEN Bad
                           ELSE LET a == ZStringNewF(m,
                                          read_u16(m, table + index * 2) * 2,
                                          left - 1)
                                IN  IF ~a.ok THEN Bad
                                    ELSE Rest(k + 2, shift, a.contents)
             ELSE IF c = 4 THEN Rest(k + 1, 1, <<>>)
             ELSE IF c = 5 THEN Rest(k + 1, 2, <<>>)
             ELSE IF shift = 2 /\ c = 6
             THEN IF k + 2 > Len(bytes) THEN Bad
                  ELSE LET utf_char == ((bytes[k + 1] * 32) % 256)
                                         + (bytes[k + 2] % 32)
                       IN  IF utf_char >= 128 THEN Bad
                           ELSE Rest(k + 3, 0, <<utf_char>>)
             ELSE Rest(k + 1, 0, <<Alphabet(shift)[c + 1]>>)

ZStringNewF(m, offset, fuel) ==
    The({ IF ~w.ok THEN ZFail
          ELSE The({ IF ~d.ok THEN ZFail
                     ELSE [ok |-> TRUE, length |-> w.length,
                           contents |-> d.contents]
                     : d \in {with_bytes(m, w.bytes, 1, 0, fuel)} })
          : w \in {ZWords(m, offset, 0)} })

\* ZString::new
ZStringNew(m, offset) == ZStringNewF(m, offset, -1)

\* The loop of ZString::with_max_length: the codes of the words from offset
\* on, up to the first word whose top bit is set or to max_length bytes.
RECURSIVE ZWordsMax(_, _, _, _)
ZWordsMax(m, offset, length, max_length) ==
    IF length = max_length THEN [ok |-> TRUE, length |-> length, bytes |-> <<>>]
    ELSE IF ~InMem16(m, offset + length)
    THEN [ok |-> FALSE, length |-> 0, bytes |-> <<>>]
    ELSE LET x == read_u16(m, offset + length)
             cs == <<(x \div 1024) % 32, (x \div 32) % 32, x % 32>>
         IN  IF x >= 32768
             THEN [ok |-> TRUE, length |-> length + 2, bytes |-> cs]
             ELSE LET r == ZWordsMax(m, offset, length + 2, max_length)
                  IN  [ok |-> r.ok, length |-> r.length,
                       bytes |-> cs \o r.bytes]

\* ZString::with_max_length: [ok, offset, length, contents]
with_max_length(m, offset, max_length) ==
    The({ IF ~w.ok THEN [ok |-> FALSE, offset |-> offset, length |-> 0,
                         contents |-> <<>>]
          ELSE The({ [ok |-> d.ok, offset |-> offset, length |-> w.length,
                      contents |-> d.contents]
                     : d \in {with_bytes(m, w.bytes, 1, 0, -1)} })
          : w \in {ZWordsMax(m, offset, 0, max_length)} })

\* Dictionary::new: [ok, offset, separators, words], the separators as
\* character codes and the words in the order of the table.
DictionaryNew(m, offset) ==
    IF ~InMem(m, offset) THEN [ok |-> FALSE]
    ELSE LET num_separators == read_u8(m, offset)
             entry_start == offset + num_separators + 1
         IN  IF ~InMem(m, entry_start + 2) THEN [ok |-> FALSE]
             ELSE LET entry_length == read_u8(m, entry_start)
                      num_entries == read_u16(m, entry_start + 1)
                      words == [k \in 1 .. num_entries |->
                                   with_max_length(m, entry_start + 3
                                                      + (k - 1) * entry_length,
                                                   4)]
                  IN  IF \E k \in 1 .. num_entries : ~words[k].ok
                      THEN [ok |-> FALSE]
                      ELSE [ok |-> TRUE, offset |-> offset,
                            separators |-> [k \in 1 .. num_separators |->
                                               read_u8(m, offset + k)],
                            words |-> words]

\* str::starts_with
StartsWith(token, prefix) ==
    /\ Len(prefix) <= Len(token)
    /\ SubSeq(token, 1, Len(prefix)) = prefix

\* A faulty variant of the test of Dictionary::get_word: every word
\* matches the tokens that start with it.
WordMatches_prefix(word, token) == StartsWith(token, word.contents)
\* The test of Dictionary::get_word on one word.
WordMatches(word, token) ==
    IF Len(word.contents) < 6 THEN word.contents = token
    ELSE StartsWith(token, word.contents)

\* Dictionary::get_word: [some, word], the first word of the table that
\* matches.
get_word(dict, token) ==
    LET hits == {k \in DOMAIN dict.words : WordMatches(dict.words[k], token)}
    IN  IF hits = {} THEN [some |-> FALSE, word |-> ZFail]
        ELSE [some |-> TRUE,
              word |-> dict.words[CHOOSE k \in hits : \A j \in hits : k <= j]]


\* ------------------------------------------------------------------------
\* The machine's state
\* ------------------------------------------------------------------------

VARIABLES
    mem,              \* Memory.memory: the image, address -> byte
    stack,            \* Memory.stack: the evaluation stack, a sequence of u16
    frames,           \* Memory.frames: the frame stack, a sequence of Frame
    ip,               \* Machine.ip
    finished,         \* Machine.finished
    header,           \* Machine.header: the Header read at construction
    mstate,           \* the MachineState the last executed instruction
                      \* returned, or "Panic" / "Hang" when it never returned
    overflow_checks,  \* the build: TRUE when integer overflow panics (the
                      \* debug profile), FALSE when it wraps (release)
    known,            \* the addresses whose bytes the run has fixed so far:
                      \* the story file is any image, and the bytes of its
                      \* code are chosen when they are first executed
    last,             \* history: the instruction executed last
    calls,            \* history: for each frame, the call that pushed it
    program,          \* history: the addresses of the instructions executed
    obj0,             \* history: Object::new was called with index 0
    idle,             \* history: the calls of Machine::step that found the
                      \* machine finished
    io,               \* Machine.io: the InputState of the ZIO of the
                      \* browser build and the characters typed
    dictionary        \* Machine.dictionary: the Dictionary read at
                      \* construction

vars == <<mem, stack, frames, ip, finished, header, mstate, overflow_checks,
          known, last, calls, obj0, program, idle, io, dictionary>>

\* ------------------------------------------------------------------------
\* Object (Object::new, refresh, write, remove)
\* ------------------------------------------------------------------------

ObjFail == [ok |-> FALSE]

\* The address of an object's entry.  With index 0 the subtraction
\* index - 1 overflows: it panics in a build with overflow checks and wraps
\* otherwise, and the wrapped sum is the address 9 bytes below object 1.
ObjectAddr(m, index) ==
    read_u16(m, 10) + DEFAULT_TABLE_SIZE + (index - 1) * OBJECT_SIZE

ObjectNew(m, index) ==
    IF index = 0 /\ overflow_checks THEN ObjFail
    ELSE IF ~InMem16(m, 10) THEN ObjFail
    ELSE LET addr == ObjectAddr(m, index)
         IN  IF ~(InMem(m, addr) /\ InMem(m, addr + 8)) THEN ObjFail
             ELSE The({ IF ~name.ok THEN ObjFail
                        ELSE [ok |-> TRUE,
                              offset |-> read_u16(m, addr + 7),
                              index |-> index,
                              attrib |-> U32(read_u16(m, addr),
                                             read_u16(m, addr + 2)),
                              parent |-> read_u8(m, addr + 4),
                              sibling |-> read_u8(m, addr + 5),
                              child |-> read_u8(m, addr + 6),
                              name |-> name]
                        : name \in {ZStringNew(m, read_u16(m, addr + 7) + 1)} })

\* A faulty Object::refresh: the links read when the object was made are
\* kept.
ObjectRefreshStale(m, o) == o

\* Object::refresh: parent, sibling and child read again from the image.
ObjectRefresh(m, o) ==
    LET addr == ObjectAddr(m, o.index)
    IN  IF ~(InMem16(m, 10) /\ InMem(m, addr) /\ InMem(m, addr + 8))
        THEN ObjFail
        ELSE [o EXCEPT !.parent = read_u8(m, addr + 4),
                       !.sibling = read_u8(m, addr + 5),
                       !.child = read_u8(m, addr + 6)]

\* A faulty Object::write: the child link is written as 0.
ObjectWrite_childless(m, o) ==
    LET addr == ObjectAddr(m, o.index)
    IN  IF ~(InMem16(m, 10) /\ InMem(m, addr) /\ InMem(m, addr + 8))
           \/ (o.index = 0 /\ overflow_checks)
        THEN [ok |-> FALSE, mem |-> m]
        ELSE [ok |-> TRUE,
              mem |-> write_u8(write_u8(write_u8(m, addr + 4, o.parent),
                                        addr + 5, o.sibling),
                               addr + 6, 0)]

\* Object::write: the whole 9-byte entry written from the copy o.
\* [ok, mem].
ObjectWrite(m, o) ==
    LET addr == ObjectAddr(m, o.index)
    IN  IF ~(InMem16(m, 10) /\ InMem(m, addr) /\ InMem(m, addr + 8))
           \/ (o.index = 0 /\ overflow_checks)
        THEN [ok |-> FALSE, mem |-> m]
        ELSE LET m1 == write_u16(m, addr, o.attrib.hi)
                 m2 == write_u16(m1, addr + 2, o.attrib.lo)
                 m3 == write_u8(m2, addr + 4, o.parent)
                 m4 == write_u8(m3, addr + 5, o.sibling)
                 m5 == write_u8(m4, addr + 6, o.child)
             IN  [ok |-> TRUE, mem |-> write_u16(m5, addr + 7, o.offset)]

\* The while loop of Object::remove: from child, follow the sibling links
\* until the object whose sibling is target.  [st, child, zero]: st is
\* "ok", "panic" (an Object::new that panics) or "hang" (the links lead
\* back to an object already visited: the loop reads the same bytes for
\* ever); zero tells that Object::new was called with index 0.
\* A faulty walk: it stops at the first child.
RemoveWalkFirst(m, child, target, visited) ==
    [st |-> "ok", child |-> child, zero |-> FALSE]

RECURSIVE RemoveWalk(_, _, _, _)
RemoveWalk(m, child, target, visited) ==
    IF child.sibling = target
    THEN [st |-> "ok", child |-> child, zero |-> FALSE]
    ELSE IF child.sibling \in visited
    THEN [st |-> "hang", child |-> child, zero |-> FALSE]
    ELSE The({ IF ~nxt.ok
               THEN [st |-> "panic", child |-> child,
                     zero |-> (child.sibling = 0)]
               ELSE LET r == RemoveWalk(m, nxt, target,
                                        visited \cup {child.sibling})
                    IN  [st |-> r.st, child |-> r.child,
                         zero |-> (r.zero \/ child.sibling = 0)]
               : nxt \in {ObjectNew(m, child.sibling)} })

\* Object::remove.  [st, mem, self, zero]: the image and the caller's copy
\* of the object after the call.
\* The end of Object::remove: the link link of the object o takes the
\* value of self.sibling in the image m, and self is written with parent 0
\* and sibling 0.
\* (Unlink_self is a faulty variant: only self is written, the link that
\* led to it is kept.)
Unlink_self(m, self, o, link, z) ==
    The({ [st |-> IF w2.ok THEN "ok" ELSE "panic",
           mem |-> w2.mem,
           self |-> [self EXCEPT !.parent = 0, !.sibling = 0],
           zero |-> z]
          : w2 \in {ObjectWrite(m, [self EXCEPT !.parent = 0,
                                                !.sibling = 0])} })
Unlink(m, self, o, link, z) ==
    The({ IF ~w.ok
          THEN [st |-> "panic", mem |-> m, self |-> self, zero |-> z]
          ELSE The({ [st |-> IF w2.ok THEN "ok" ELSE "panic",
                      mem |-> w2.mem,
                      self |-> [self EXCEPT !.parent = 0, !.sibling = 0],
                      zero |-> z]
                     : w2 \in {ObjectWrite(w.mem,
                                   [self EXCEPT !.parent = 0,
                                                !.sibling = 0])} })
          : w \in {IF link = "none" THEN [ok |-> TRUE, mem |-> m]
                   ELSE IF link = "child"
                   THEN ObjectWrite(m, [o EXCEPT !.child = self.sibling])
                   ELSE ObjectWrite(m, [o EXCEPT !.sibling = self.sibling])} })

ObjectRemove(m, self) ==
    IF self.parent = 0 THEN Unlink(m, self, self, "none", FALSE)
    ELSE The({
        IF ~parent.ok
        THEN [st |-> "panic", mem |-> m, self |-> self, zero |-> FALSE]
        ELSE The({
            IF ~child.ok
            THEN [st |-> "panic", mem |-> m, self |-> self,
                  zero |-> (parent.child = 0)]
            ELSE IF child.index = self.index
            THEN Unlink(m, self, parent, "child", parent.child = 0)
            ELSE The({
                IF r.st # "ok"
                THEN [st |-> r.st, mem |-> m, self |-> self,
                      zero |-> (parent.child = 0 \/ r.zero)]
                ELSE Unlink(m, self, r.child, "sibling",
                            parent.child = 0 \/ r.zero)
                : r \in {RemoveWalk(m, child, self.index, {child.index})} })
            : child \in {ObjectNew(m, parent.child)} })
        : parent \in {ObjectNew(m, self.parent)} })


\* ------------------------------------------------------------------------
\* Operands, return storage and the instruction decoder
\* ------------------------------------------------------------------------

Large(x) == [tag |-> "Large", v |-> x]
Small(x) == [tag |-> "Small", v |-> x]
Variable(x) == [tag |-> "Variable", v |-> x]
Indirect(x) == [tag |-> "Indirect", v |-> x]
Omitted == [tag |-> "Omitted", v |-> 0]

\* Return::Variable, Return::Indirect, Return::Omitted
RetVariable(x) == [tag |-> "Variable", v |-> x]
RetIndirect(x) == [tag |-> "Indirect", v |-> x]
RetOmitted == [tag |-> "Omitted", v |-> 0]

None == [some |-> FALSE, v |-> 0]
Some(x) == [some |-> TRUE, v |-> x]
NoString == [some |-> FALSE, length |-> 0, contents |-> <<>>]

\* The name tables of Instruction::name.
names0op ==
    <<"rtrue", "rfalse", "print", "print_ret", "no", "save", "restore",
      "restart", "ret_popped", "pop", "quit", "new_line", "show_status",
      "verify", "extended", "piracy">>
names1op ==
    <<"jz", "get_sibling", "get_child", "get_parent", "get_prop_len", "inc",
      "dec", "print_addr", "call_1s", "remove_obj", "print_obj", "ret",
      "jump", "print_paddr", "load", "not", "call_1n">>
names2op ==
    <<"none", "je", "jl", "jg", "dec_chk", "inc_chk", "jin", "test", "or",
      "and", "test_attr", "set_attr", "clear_attr", "store", "insert_obj",
      "loadw", "loadb", "get_prop", "get_prop_addr", "get_next_prop", "add",
      "sub", "mul", "div", "mod", "call_2s", "call_2n", "set_colour",
      "throw">>
namesvar ==
    <<"call", "storew", "storeb", "put_prop", "sread", "print_char",
      "print_num", "random", "push", "pull", "split_window", "set_window",
      "call_vs2", "erase_window", "erase_line", "set_cursor", "get_cursor",
      "set_text_style", "buffer_mode", "output_stream", "input_stream",
      "sound_effect", "read_char", "scan_table", "not_v4", "call_vn",
      "call_vn2", "tokenise", "encode_text", "copy_table", "print_table",
      "check_arg_count">>

\* Instruction::name
Name(i) ==
    LET table == IF i.optype = "Op0" THEN names0op
                 ELSE IF i.optype = "Op1" THEN names1op
                 ELSE IF i.optype = "Op2" THEN names2op
                 ELSE namesvar
    IN  IF i.opcode + 1 \in DOMAIN table THEN table[i.opcode + 1]
        ELSE "unknown"

DecodeFail ==
    [ok |-> FALSE, offset |-> 0, opcode |-> 0, optype |-> "Op0",
     length |-> 0, args |-> <<>>, ret |-> RetOmitted, string |-> NoString,
     jump_offset |-> None, compare |-> None]

Instr(offset, opcode, optype, length, args) ==
    [ok |-> TRUE, offset |-> offset, opcode |-> opcode, optype |-> optype,
     length |-> length, args |-> args, ret |-> RetOmitted,
     string |-> NoString, jump_offset |-> None, compare |-> None]

\* Instruction::decode_short
decode_short(m, offset, op) ==
    LET kind == (op \div 16) % 4
    IN  IF kind = 3 THEN Instr(offset, op % 16, "Op0", 1, <<>>)
        ELSE IF kind = 2
        THEN IF ~InMem(m, offset + 1) THEN DecodeFail
             ELSE Instr(offset, op % 16, "Op1", 2,
                        <<Variable(read_u8(m, offset + 1))>>)
        ELSE IF kind = 1
        THEN IF ~InMem(m, offset + 1) THEN DecodeFail
             ELSE Instr(offset, op % 16, "Op1", 2,
                        <<Small(read_u8(m, offset + 1))>>)
        ELSE IF ~InMem16(m, offset + 1) THEN DecodeFail
             ELSE Instr(offset, op % 16, "Op1", 3,
                        <<Large(read_u16(m, offset + 1))>>)

\* A faulty variant: both operands are small constants whatever the bits
\* 0x40 and 0x20 of the first byte.
decode_long_small(m, offset, op) ==
    IF ~(InMem(m, offset + 1) /\ InMem(m, offset + 2)) THEN DecodeFail
    ELSE Instr(offset, op % 32, "Op2", 3,
               <<Small(read_u8(m, offset + 1)), Small(read_u8(m, offset + 2))>>)

\* Instruction::decode_long
decode_long(m, offset, op) ==
    IF ~(InMem(m, offset + 1) /\ InMem(m, offset + 2)) THEN DecodeFail
    ELSE LET x == read_u8(m, offset + 1)
             y == read_u8(m, offset + 2)
         IN  Instr(offset, op % 32, "Op2", 3,
                   << IF (op \div 64) % 2 = 1 THEN Variable(x) ELSE Small(x),
                      IF (op \div 32) % 2 = 1 THEN Variable(y) ELSE Small(y) >>)

\* The loop of Instruction::decode_var over the four 2-bit type fields,
\* from field x on: [ok, size, args], Omitted operands included.
RECURSIVE decode_var_fields(_, _, _, _, _)
decode_var_fields(m, offset, optypes, x, size) ==
    IF x = 4 THEN [ok |-> TRUE, size |-> size, args |-> <<>>]
    ELSE LET type == (optypes \div Pow2((3 - x) * 2)) % 4
             Then(sz, arg) ==
                 LET r == decode_var_fields(m, offset, optypes, x + 1, sz)
                 IN  [ok |-> r.ok, size |-> r.size, args |-> <<arg>> \o r.args]
             Bad == [ok |-> FALSE, size |-> size, args |-> <<>>]
         IN  IF type = 3 THEN Then(size, Omitted)
             ELSE IF type = 2
             THEN IF ~InMem(m, offset + size) THEN Bad
                  ELSE Then(size + 1, Variable(read_u8(m, offset + size)))
             ELSE IF type = 1
             THEN IF ~InMem(m, offset + size) THEN Bad
                  ELSE Then(size + 1, Small(read_u8(m, offset + size)))
             ELSE IF ~InMem16(m, offset + size) THEN Bad
                  ELSE Then(size + 2, Large(read_u16(m, offset + size)))

\* Instruction::decode_var
decode_var(m, offset, op) ==
    IF ~InMem(m, offset + 1) THEN DecodeFail
    ELSE The({ IF ~r.ok THEN DecodeFail
               ELSE Instr(offset, op % 32,
                          IF (op \div 32) % 2 = 1 THEN "Var" ELSE "Op2",
                          r.size,
                          SelectSeq(r.args, LAMBDA a : a.tag # "Omitted"))
               : r \in {decode_var_fields(m, offset, read_u8(m, offset + 1),
                                          0, 2)} })

\* The opcodes that store a result (the test of Instruction::add_return).
StoresResult(optype, opcode) ==
    IF optype = "Op2"
    THEN (opcode >= 8 /\ opcode <= 9) \/ (opcode >= 15 /\ opcode <= 25)
    ELSE IF optype = "Op1"
    THEN (opcode >= 1 /\ opcode <= 4) \/ opcode = 8
         \/ (opcode >= 14 /\ opcode <= 15)
    ELSE IF optype = "Var" THEN opcode = 0 \/ opcode = 7
    ELSE FALSE

\* A faulty variant: the store byte is read and not counted in the length.
add_return_unsized(m, i) ==
    IF ~i.ok THEN i
    ELSE IF StoresResult(i.optype, i.opcode)
    THEN IF ~InMem(m, i.offset + i.length) THEN DecodeFail
         ELSE [i EXCEPT !.ret = RetVariable(read_u8(m, i.offset + i.length))]
    ELSE i

\* Instruction::add_return
add_return(m, i) ==
    IF ~i.ok THEN i
    ELSE IF StoresResult(i.optype, i.opcode)
    THEN IF ~InMem(m, i.offset + i.length) THEN DecodeFail
         ELSE [i EXCEPT !.ret = RetVariable(read_u8(m, i.offset + i.length)),
                        !.length = i.length + 1]
    ELSE i

\* The opcodes that branch (the test of Instruction::add_branch).
Branches(optype, opcode) ==
    IF optype = "Op2" THEN (opcode >= 1 /\ opcode <= 7) \/ opcode = 10
    ELSE IF optype = "Op1" THEN opcode <= 2
    ELSE IF optype = "Op0"
    THEN opcode = 5 \/ opcode = 6 \/ opcode = 13 \/ opcode = 15
    ELSE FALSE

\* The offset of a branch descriptor as Instruction::add_branch computes it
\* from the 15 low bits it has assembled.
BranchOffset(raw) == IF raw > 4095 THEN -(8191 - raw + 1) ELSE raw

\* Instruction::add_branch
add_branch(m, i) ==
    IF ~i.ok THEN i
    ELSE IF Branches(i.optype, i.opcode)
    THEN IF ~InMem(m, i.offset + i.length) THEN DecodeFail
         ELSE LET branch1 == read_u8(m, i.offset + i.length)
                  compare == (branch1 \div 128) % 2 = 1
              IN  IF (branch1 \div 64) % 2 = 1
                  THEN [i EXCEPT !.jump_offset = Some(BranchOffset(branch1 % 64)),
                                 !.length = i.length + 1,
                                 !.compare = Some(compare)]
                  ELSE IF ~InMem(m, i.offset + i.length + 1) THEN DecodeFail
                  ELSE LET branch2 == read_u8(m, i.offset + i.length + 1)
                           raw == (branch1 % 32) * 256 + branch2
                       IN  [i EXCEPT !.jump_offset = Some(BranchOffset(raw)),
                                     !.length = i.length + 2,
                                     !.compare = Some(compare)]
    ELSE i

\* Instruction::add_print
add_print(m, i) ==
    IF ~i.ok THEN i
    ELSE IF i.optype = "Op0" /\ (i.opcode = 2 \/ i.opcode = 3)
    THEN The({ IF ~s.ok THEN DecodeFail
               ELSE [i EXCEPT !.length = i.length + s.length,
                              !.string = [some |-> TRUE, length |-> s.length,
                                          contents |-> s.contents]]
               : s \in {ZStringNew(m, i.offset + i.length)} })
    ELSE i

\* Instruction::new
InstructionNew(m, offset) ==
    IF ~InMem(m, offset) THEN DecodeFail
    ELSE LET op == read_u8(m, offset)
             form == op \div 64
         IN  add_print(m, add_branch(m, add_return(m,
                 IF form = 3 THEN decode_var(m, offset, op)
                 ELSE IF form = 2 THEN decode_short(m, offset, op)
                 ELSE decode_long(m, offset, op))))


\* ------------------------------------------------------------------------
\* Machine: variables, call, ret, jump.  The operators work on a record s
\* of the fields an instruction can change,
\*   [mem, stack, frames, ip, calls, rw, zero],
\* where rw is the list of writes made to a return storage (the
\* instruction's own or, on a return, the frame's) and zero tells that
\* Object::new was called with index 0.
\* ------------------------------------------------------------------------

Cur(m) ==
    [mem |-> m, stack |-> stack, frames |-> frames, ip |-> ip,
     calls |-> calls, rw |-> <<>>, zero |-> FALSE, rnd |-> 0, io |-> io]

Front(q) == SubSeq(q, 1, Len(q) - 1)
Top(q) == q[Len(q)]

\* Machine::read_global: [ok, val]
read_global(s, var) ==
    LET offset == header.globals + header.dynamic_start + var * 2
    IN  IF ~InMem16(s.mem, offset) THEN [ok |-> FALSE, val |-> 0]
        ELSE [ok |-> TRUE, val |-> read_u16(s.mem, offset)]

\* Machine::read_local: [ok, val]
read_local(s, var) ==
    IF s.frames # <<>>
    THEN LET index == Top(s.frames).stack_start + var
         IN  IF index + 1 \in DOMAIN s.stack
             THEN [ok |-> TRUE, val |-> s.stack[index + 1]]
             ELSE [ok |-> FALSE, val |-> 0]
    ELSE [ok |-> TRUE, val |-> 0]

\* Machine::read_var: [ok, val, s]; ok is FALSE when the read panics.
read_var(s, var) ==
    LET Got(r) == [ok |-> r.ok, val |-> r.val, s |-> s]
    IN  IF var.tag = "Variable"
        THEN IF var.v >= 16 THEN Got(read_global(s, var.v - 16))
             ELSE IF var.v = 0
             THEN IF s.stack = <<>> THEN [ok |-> FALSE, val |-> 0, s |-> s]
                  ELSE [ok |-> TRUE, val |-> Top(s.stack),
                        s |-> [s EXCEPT !.stack = Front(s.stack)]]
             ELSE Got(read_local(s, var.v - 1))
        ELSE IF var.tag = "Indirect"
        THEN IF var.v >= 16 THEN Got(read_global(s, var.v - 16))
             ELSE IF var.v = 0
             THEN IF s.stack = <<>> THEN [ok |-> FALSE, val |-> 0, s |-> s]
                  ELSE [ok |-> TRUE, val |-> Top(s.stack), s |-> s]
             ELSE Got(read_local(s, var.v - 1))
        ELSE [ok |-> TRUE, val |-> var.v, s |-> s]

\* Machine::write_global: [ok, s, stored]
write_global(s, var, val) ==
    LET offset == header.globals + header.dynamic_start + var * 2
    IN  IF ~InMem16(s.mem, offset) THEN [ok |-> FALSE, s |-> s, stored |-> FALSE]
        ELSE [ok |-> TRUE, s |-> [s EXCEPT !.mem = write_u16(s.mem, offset, val)],
              stored |-> TRUE]

\* Machine::write_local: [ok, s, stored]; without a frame nothing is
\* written.
write_local(s, var, val) ==
    IF s.frames # <<>>
    THEN LET index == Top(s.frames).stack_start + var
         IN  IF index + 1 \in DOMAIN s.stack
             THEN [ok |-> TRUE,
                   s |-> [s EXCEPT !.stack = [s.stack EXCEPT ![index + 1] = val]],
                   stored |-> TRUE]
             ELSE [ok |-> FALSE, s |-> s, stored |-> FALSE]
    ELSE [ok |-> TRUE, s |-> s, stored |-> FALSE]

\* Machine::write_var: [ok, s, stored]; stored tells that a word was
\* written.
write_var(s, var, val) ==
    IF var.tag = "Variable"
    THEN IF var.v >= 16 THEN write_global(s, var.v - 16, val)
         ELSE IF var.v = 0
         THEN [ok |-> TRUE, s |-> [s EXCEPT !.stack = Append(s.stack, val)],
               stored |-> TRUE]
         ELSE write_local(s, var.v - 1, val)
    ELSE IF var.tag = "Indirect"
    THEN IF var.v >= 16 THEN write_global(s, var.v - 16, val)
         ELSE IF var.v = 0
         THEN [ok |-> TRUE,
               s |-> [s EXCEPT !.stack =
                          Append(IF s.stack = <<>> THEN <<>> ELSE Front(s.stack),
                                 val)],
               stored |-> TRUE]
         ELSE write_local(s, var.v - 1, val)
    ELSE [ok |-> TRUE, s |-> s, stored |-> FALSE]

\* A write to a return storage: write_var, and the write noted in rw with
\* whose storage it is, the instruction's own ("instruction") or that of the
\* call the popped frame was pushed by ("frame").
write_ret(s, var, val, of) ==
    The({ [ok |-> w.ok,
           s |-> [w.s EXCEPT !.rw = Append(s.rw, [storage |-> var, val |-> val,
                                                  stored |-> w.stored,
                                                  of |-> of])]]
          : w \in {write_var(s, var, val)} })

\* What a handler returns: the MachineState ("Continue", "GetInput",
\* "Break", "CleanExit"), or "Panic" / "Hang" when it does not return, and
\* the fields as it leaves them.
Out(st, s) == [st |-> st, s |-> s]

\* Machine::ret
ret(s, val) ==
    IF s.frames = <<>> THEN Out("Panic", s)
    ELSE LET frame == Top(s.frames)
         IN  IF Len(s.stack) < frame.stack_start
             \* stack.pop() on the empty stack changes nothing: the while
             \* loop never sees the length it waits for
             THEN Out("Hang", s)
             ELSE The({ IF ~w.ok THEN Out("Panic", w.s)
                        ELSE Out("Continue",
                                 [w.s EXCEPT !.ip = frame.return_addr])
                        : w \in {write_ret(
                                     [s EXCEPT
                                        !.frames = Front(s.frames),
                                        !.calls = Front(s.calls),
                                        !.stack = SubSeq(s.stack, 1,
                                                         frame.stack_start)],
                                     frame.return_storage, val, "frame")} })

\* Machine::jump
jump(s, i, compare) ==
    IF i.compare.some /\ compare = i.compare.v
    THEN IF i.jump_offset.some /\ i.jump_offset.v = 0 THEN ret(s, 0)
         ELSE IF i.jump_offset.some /\ i.jump_offset.v = 1 THEN ret(s, 1)
         ELSE IF i.jump_offset.some
         THEN Out("Continue",
                  [s EXCEPT !.ip = i.offset + i.length + i.jump_offset.v - 2])
         ELSE Out("Continue", s)
    ELSE Out("Continue", s)

\* The operands args[k ..] read in order: [ok, vals, s].
RECURSIVE read_all(_, _, _)
read_all(s, args, k) ==
    IF k > Len(args) THEN [ok |-> TRUE, vals |-> <<>>, s |-> s]
    ELSE The({ IF ~r.ok THEN [ok |-> FALSE, vals |-> <<>>, s |-> r.s]
               ELSE LET t == read_all(r.s, args, k + 1)
                    IN  [ok |-> t.ok, vals |-> <<r.val>> \o t.vals, s |-> t.s]
               : r \in {read_var(s, args[k])} })

\* The locals a call pushes, from local k on: [ok, words].
RECURSIVE call_locals(_, _, _, _, _)
call_locals(m, addr, num_locals, args, k) ==
    IF k >= num_locals THEN [ok |-> TRUE, words |-> <<>>]
    ELSE IF k < Len(args)
    THEN LET t == call_locals(m, addr, num_locals, args, k + 1)
         IN  [ok |-> t.ok, words |-> <<args[k + 1]>> \o t.words]
    ELSE IF ~InMem16(m, addr + 1 + k * 2) THEN [ok |-> FALSE, words |-> <<>>]
    ELSE LET t == call_locals(m, addr, num_locals, args, k + 1)
         IN  [ok |-> t.ok,
              words |-> <<read_u16(m, addr + 1 + k * 2)>> \o t.words]

\* A call of address 0 that leaves the return storage alone (a faulty
\* variant of call_zero).
call_zero_unwritten(s, i, r) ==
    Out("Continue", [r.s EXCEPT !.ip = s.ip + i.length])

\* Machine::call when the address is 0: the return storage gets 0 and ip
\* the return address.
call_zero(s, i, r) ==
    The({ IF ~w.ok THEN Out("Panic", s)
          ELSE Out("Continue", [w.s EXCEPT !.ip = s.ip + i.length])
          : w \in {write_ret(r.s, i.ret, 0, "instruction")} })

\* The end of Machine::call once the operands are read: a is the packed
\* address and its reading, r the other operands and theirs.
call_routine(s, i, a, r) ==
    LET addr == header.dynamic_start + a.val * 2
        ret_addr == s.ip + i.length
    IN  IF addr - header.dynamic_start = 0
        THEN call_zero(s, i, r)
        ELSE IF ~InMem(r.s.mem, addr) THEN Out("Panic", s)
        ELSE LET num_locals == read_u8(r.s.mem, addr)
             IN  The({
                 IF ~loc.ok THEN Out("Panic", s)
                 ELSE Out("Continue",
                          [r.s EXCEPT
                             !.frames = Append(r.s.frames,
                                           [addr |-> addr,
                                            stack_start |-> Len(r.s.stack),
                                            num_locals |-> num_locals,
                                            return_storage |-> i.ret,
                                            return_addr |-> ret_addr]),
                             !.calls = Append(r.s.calls,
                                          [depth |-> Len(s.stack),
                                           ip |-> s.ip,
                                           length |-> i.length,
                                           ret |-> i.ret]),
                             !.stack = r.s.stack \o loc.words,
                             !.ip = addr + 1 + num_locals * 2])
                 : loc \in {call_locals(r.s.mem, addr, num_locals,
                                        r.vals, 0)} })

\* Machine::call
call(s, i) ==
    IF i.args = <<>> THEN Out("Panic", s)
    ELSE The({ IF ~a.ok THEN Out("Panic", s)
               ELSE The({ IF ~r.ok THEN Out("Panic", s)
                          ELSE call_routine(s, i, a, r)
                          : r \in {read_all(a.s, i.args, 2)} })
               : a \in {read_var(s, i.args[1])} })


\* ------------------------------------------------------------------------
\* The story file: a small image with a header, the property defaults, the
\* object table, one property block per object, the globals, an empty
\* dictionary and a code window.
\* ------------------------------------------------------------------------

W(x) == <<(x \div 256) % 256, x % 256>>

RECURSIVE Flatten(_)
Flatten(ss) == IF ss = <<>> THEN <<>> ELSE Head(ss) \o Flatten(Tail(ss))

RECURSIVE SortedSeq(_, _)
\* The elements of the set S in ascending (up) or descending order.
SortedSeq(S, up) ==
    IF S = {} THEN <<>>
    ELSE LET x == CHOOSE y \in S :
                     \A z \in S : IF up THEN y <= z ELSE y >= z
         IN  <<x>> \o SortedSeq(S \ {x}, up)

Objects == 1 .. NumObjects

\* One property block: the name's length in words, the name (one word,
\* three padding codes), a 2-byte property 5, a 1-byte property 3, the end.
PropBlock(k) == <<1, 148, 165, 37, 18, 48 + k, 3, 80 + k, 0>>

ObjectsBase == HeaderLen
EntriesBase == ObjectsBase + DEFAULT_TABLE_SIZE
PropsBase == EntriesBase + NumObjects * OBJECT_SIZE
PropAddr(k) == PropsBase + (k - 1) * Len(PropBlock(k))
GlobalsBase == PropAddr(NumObjects + 1)
DictBase == GlobalsBase + 2 * NumGlobals
CodeBase == DictBase + 4

\* The header word at the even address a.
HeaderWord(a) ==
    IF a = 0 THEN 3 * 256
    ELSE IF a = 4 THEN CodeBase
    ELSE IF a = 6 THEN CodeBase
    ELSE IF a = 8 THEN DictBase
    ELSE IF a = 10 THEN ObjectsBase
    ELSE IF a = 12 THEN GlobalsBase
    ELSE IF a = 14 THEN DictBase
    ELSE 0

HeaderBytes ==
    [k \in 1 .. HeaderLen |->
        IF (k - 1) % 2 = 0 THEN HeaderWord(k - 1) \div 256
        ELSE HeaderWord(k - 2) % 256]

\* The default of property p.
DefaultWord(p) == 257 * p
DefaultBytes == Flatten([p \in 1 .. NUM_DEFAULTS |-> W(DefaultWord(p))])

\* The links of a forest given by its parent function par, the children of
\* every object in ascending (up) or descending order of index.
ChildrenOf(par, p) == {k \in Objects : par[k] = p}
FirstOf(q) == IF q = <<>> THEN 0 ELSE q[1]
ChildLink(par, up, p) == FirstOf(SortedSeq(ChildrenOf(par, p), up))
SiblingLink(par, up, k) ==
    IF par[k] = 0 THEN 0
    ELSE LET q == SortedSeq(ChildrenOf(par, par[k]), up)
             n == CHOOSE j \in 1 .. Len(q) : q[j] = k
         IN  IF n = Len(q) THEN 0 ELSE q[n + 1]

EntryBytes(par, up, attr, k) ==
    W(attr[k].hi) \o W(attr[k].lo)
    \o <<par[k], SiblingLink(par, up, k), ChildLink(par, up, k)>>
    \o W(PropAddr(k))

ImageBytes(par, up, attr, globals, code) ==
    HeaderBytes \o DefaultBytes
    \o Flatten([k \in Objects |-> EntryBytes(par, up, attr, k)])
    \o Flatten([k \in Objects |-> PropBlock(k)])
    \o Flatten([g \in 1 .. NumGlobals |-> W(globals[g])])
    \o <<0, 0, 0, 0>>
    \o code

Image(bytes) == [a \in 0 .. Len(bytes) - 1 |-> bytes[a + 1]]

\* par has no cycle: every object reaches parent 0.
RECURSIVE ReachesRoot(_, _, _)
ReachesRoot(par, k, n) ==
    IF k = 0 THEN TRUE
    ELSE IF n = 0 THEN FALSE
    ELSE ReachesRoot(par, par[k], n - 1)
Forests ==
    {par \in [Objects -> 0 .. NumObjects] :
        \A k \in Objects : ReachesRoot(par, k, NumObjects)}

\* Header::new
HeaderNew(m) ==
    [dynamic_start |-> 0,
     dynamic_end |-> read_u16(m, 14),
     static_start |-> read_u16(m, 14),
     static_end |-> read_u16(m, 14) + Min(65535, Cardinality(DOMAIN m)),
     high_start |-> read_u16(m, 4),
     high_end |-> Cardinality(DOMAIN m),
     globals |-> read_u16(m, 12),
     checksum |-> read_u16(m, 28)]

NoLast == [instr |-> DecodeFail, rw |-> <<>>]

\* ZIO::new: no line is being typed.
ZIONew == [state |-> "None", input |-> <<>>]

\* Machine::new on the image m (get_machine, Memory::new, Header::new,
\* Dictionary::new, ZIO::new).
\* The bytes below the code and the bytes fixed of the code are those of m.
MachineNew(m, fixed) ==
    /\ mem = m
    /\ known = {a \in DOMAIN m : a < read_u16(m, 4)} \cup fixed
    /\ stack = <<>>
    /\ frames = <<>>
    /\ ip = read_u16(m, 6)
    /\ finished = FALSE
    /\ header = HeaderNew(m)
    /\ mstate = "Continue"
    /\ overflow_checks \in BOOLEAN
    /\ last = NoLast
    /\ calls = <<>>
    /\ program = {}
    /\ obj0 = FALSE
    /\ idle = 0
    /\ io = ZIONew
    /\ DictionaryNew(m, read_u16(m, 8)).ok
    /\ dictionary = DictionaryNew(m, read_u16(m, 8))

ZeroCode(n) == [k \in 1 .. n |-> 0]
ZeroGlobals == [g \in 1 .. NumGlobals |-> 0]

\* ------------------------------------------------------------------------
\* Machine::step and Machine::execute around one handler
\* ------------------------------------------------------------------------

\* The image with the bytes code at the address at.
Overlay(m, at, code) ==
    [a \in DOMAIN m |->
        IF a >= at /\ a < at + Len(code) THEN code[a - at + 1] ELSE m[a]]

\* The story file may have the bytes code at ip: they fit in the image and
\* agree with the bytes already fixed there.
MayHold(code) ==
    /\ InMem(mem, ip + Len(code) - 1)
    /\ \A k \in 1 .. Len(code) :
           (ip + k - 1) \in known => mem[ip + k - 1] = code[k]

\* The loop of Machine::step runs: the machine is not finished and the
\* process has neither panicked nor hung.
Running ==
    /\ ~finished
    /\ mstate \in {"Continue", "GetInput"}


\* ------------------------------------------------------------------------
\* The object opcodes of Machine::execute
\* ------------------------------------------------------------------------

\* convert_arg!(self.read_var(arg), Object): [st, s, obj], st being "ok",
\* "Break" (object 0) or "Panic".
read_object(s, arg) ==
    The({ IF ~r.ok THEN [st |-> "Panic", s |-> r.s, obj |-> ObjFail]
          ELSE IF r.val = 0 THEN [st |-> "Break", s |-> r.s, obj |-> ObjFail]
          ELSE The({ [st |-> IF o.ok THEN "ok" ELSE "Panic", s |-> r.s,
                      obj |-> o]
                     : o \in {ObjectNew(r.s.mem, r.val)} })
          : r \in {read_var(s, arg)} })

\* read_args!(Object, usize): [st, s, obj, y]
read_object_and(s, args) ==
    IF Len(args) < 1 THEN [st |-> "Panic", s |-> s, obj |-> ObjFail, y |-> 0]
    ELSE The({ IF a.st # "ok" \/ Len(args) < 2
               THEN [st |-> IF a.st # "ok" THEN a.st ELSE "Panic", s |-> a.s,
                     obj |-> a.obj, y |-> 0]
               ELSE The({ [st |-> IF b.ok THEN "ok" ELSE "Panic", s |-> b.s,
                           obj |-> a.obj, y |-> b.val]
                          : b \in {read_var(a.s, args[2])} })
               : a \in {read_object(s, args[1])} })

\* read_args!(Object)
read_object_only(s, args) ==
    IF Len(args) < 1 THEN [st |-> "Panic", s |-> s, obj |-> ObjFail]
    ELSE read_object(s, args[1])

\* What a handler returns when Object::remove did not return.
Stuck(st, s) == Out(IF st = "hang" THEN "Hang" ELSE "Panic", s)

\* The end of "set_attr" and "clear_attr", and the writes of "insert_obj":
\* the object o written back to the image of s.  [ok, s].
WriteObject(s, o) ==
    The({ [ok |-> w.ok, s |-> [s EXCEPT !.mem = w.mem]]
          : w \in {ObjectWrite(s.mem, o)} })

\* "insert_obj" from dest.refresh on: obj is the object as obj.remove left
\* it, dest the destination as it was read before.
insert_links(s, obj, dest) ==
    The({ IF ~d.ok THEN Out("Panic", s)
          ELSE The({ IF ~w1.ok THEN Out("Panic", s)
                     ELSE The({ Out(IF w2.ok THEN "Continue" ELSE "Panic",
                                    w2.s)
                                : w2 \in {WriteObject(w1.s,
                                             [d EXCEPT !.child = obj.index])} })
                     : w1 \in {WriteObject(s,
                                  [obj EXCEPT !.sibling = d.child,
                                              !.parent = d.index])} })
          : d \in {ObjectRefresh(s.mem, dest)} })

\* "insert_obj"
Exec_insert_obj(s, i) ==
    The({ IF a.st # "ok" THEN Out(a.st, a.s)
          ELSE IF Len(i.args) < 2 THEN Out("Panic", a.s)
          ELSE The({
              IF b.st # "ok" THEN Out(b.st, b.s)
              ELSE The({
                  IF rm.st # "ok"
                  THEN Stuck(rm.st, [b.s EXCEPT !.zero = rm.zero])
                  ELSE insert_links([b.s EXCEPT !.zero = rm.zero,
                                             !.mem = rm.mem],
                                    rm.self, b.obj)
                  : rm \in {ObjectRemove(b.s.mem, a.obj)} })
              : b \in {read_object(a.s, i.args[2])} })
          : a \in {read_object_only(s, i.args)} })

\* "remove_obj"
Exec_remove_obj(s, i) ==
    The({ IF a.st # "ok" THEN Out(a.st, a.s)
          ELSE The({
              IF rm.st # "ok"
              THEN Stuck(rm.st, [a.s EXCEPT !.zero = rm.zero])
              ELSE Out("Continue", [a.s EXCEPT !.zero = rm.zero,
                                               !.mem = rm.mem])
              : rm \in {ObjectRemove(a.s.mem, a.obj)} })
          : a \in {read_object_only(s, i.args)} })

\* A faulty variant of the write below: the handler ends without it.
Store_unwritten(s, i, val) == Out("Continue", s)

\* A handler that writes val to the instruction's return storage.
Store(s, i, val) ==
    The({ Out(IF w.ok THEN "Continue" ELSE "Panic", w.s)
          : w \in {write_ret(s, i.ret, val, "instruction")} })

\* A handler that writes val and then branches on cond.
StoreAndJump(s, i, val, cond) ==
    The({ IF ~w.ok THEN Out("Panic", w.s) ELSE jump(w.s, i, cond)
          : w \in {write_ret(s, i.ret, val, "instruction")} })

\* "get_parent"
Exec_get_parent(s, i) ==
    The({ IF a.st # "ok" THEN Out(a.st, a.s)
          ELSE Store(a.s, i, a.obj.parent)
          : a \in {read_object_only(s, i.args)} })

\* "get_child"
Exec_get_child(s, i) ==
    The({ IF a.st # "ok" THEN Out(a.st, a.s)
          ELSE StoreAndJump(a.s, i, a.obj.child, a.obj.child # 0)
          : a \in {read_object_only(s, i.args)} })

\* "get_sibling"
Exec_get_sibling(s, i) ==
    The({ IF a.st # "ok" THEN Out(a.st, a.s)
          ELSE StoreAndJump(a.s, i, a.obj.sibling, a.obj.sibling # 0)
          : a \in {read_object_only(s, i.args)} })

\* "jin"
Exec_jin(s, i) ==
    The({ IF a.st # "ok" THEN Out(a.st, a.s)
          ELSE jump(a.s, i, a.obj.parent = a.y)
          : a \in {read_object_and(s, i.args)} })

\* "test_attr"
Exec_test_attr(s, i) ==
    The({ IF a.st # "ok" THEN Out(a.st, a.s)
          ELSE IF a.y > 31 THEN Out("Break", a.s)
          ELSE jump(a.s, i, TestBit(a.obj.attrib, 31 - a.y))
          : a \in {read_object_and(s, i.args)} })

\* A faulty write_attr: the attribute number is reduced to 0..31 and the
\* object written before the number is tested.
write_attr_unchecked(a, set) ==
    The({ Out(IF ~w.ok THEN "Panic"
              ELSE IF a.y > 31 THEN "Break" ELSE "Continue", w.s)
          : w \in {WriteObject(a.s,
                       [a.obj EXCEPT !.attrib =
                           IF set THEN SetBit(a.obj.attrib, 31 - (a.y % 32))
                           ELSE ClearBit(a.obj.attrib, 31 - (a.y % 32))])} })

\* "set_attr" (set) and "clear_attr" (~set) from the test of the attribute
\* number on.
write_attr(a, set) ==
    IF a.y > 31 THEN Out("Break", a.s)
    ELSE The({ Out(IF w.ok THEN "Continue" ELSE "Panic", w.s)
               : w \in {WriteObject(a.s,
                            [a.obj EXCEPT !.attrib =
                                IF set THEN SetBit(a.obj.attrib, 31 - a.y)
                                ELSE ClearBit(a.obj.attrib, 31 - a.y)])} })

\* "set_attr"
Exec_set_attr(s, i) ==
    The({ IF a.st # "ok" THEN Out(a.st, a.s)
          ELSE write_attr(a, TRUE)
          : a \in {read_object_and(s, i.args)} })

\* "clear_attr"
Exec_clear_attr(s, i) ==
    The({ IF a.st # "ok" THEN Out(a.st, a.s)
          ELSE write_attr(a, FALSE)
          : a \in {read_object_and(s, i.args)} })

\* ------------------------------------------------------------------------
\* Machine::execute and Machine::step
\* ------------------------------------------------------------------------

\* ------------------------------------------------------------------------
\* Property
\* ------------------------------------------------------------------------

PropFail == [ok |-> FALSE, offset |-> 0, index |-> 0, length |-> 0]

\* Property::new
PropertyNew(m, offset) ==
    IF ~InMem(m, offset) THEN PropFail
    ELSE [ok |-> TRUE, offset |-> offset,
          index |-> read_u8(m, offset) % 32,
          length |-> (read_u8(m, offset) \div 32) + 1]

\* Property::read: [ok, val]; a length other than 1 or 2 is unimplemented
\* and panics.
PropertyRead(m, p) ==
    IF p.length = 1 /\ InMem(m, p.offset + 1)
    THEN [ok |-> TRUE, val |-> read_u8(m, p.offset + 1)]
    ELSE IF p.length = 2 /\ InMem16(m, p.offset + 1)
    THEN [ok |-> TRUE, val |-> read_u16(m, p.offset + 1)]
    ELSE [ok |-> FALSE, val |-> 0]

\* Property::write: [ok, mem]
PropertyWrite(m, p, value) ==
    IF p.length = 1 /\ InMem(m, p.offset + 1)
    THEN [ok |-> TRUE, mem |-> write_u8(m, p.offset + 1, value % 256)]
    ELSE IF p.length = 2 /\ InMem16(m, p.offset + 1)
    THEN [ok |-> TRUE, mem |-> write_u16(m, p.offset + 1, value)]
    ELSE [ok |-> FALSE, mem |-> m]

\* The properties of a block from addr to its terminator, in order:
\* [ok, props]; ok is FALSE when the walk leaves the image.
RECURSIVE PropList(_, _)
PropList(m, addr) ==
    The({ IF ~p.ok THEN [ok |-> FALSE, props |-> <<>>]
          ELSE IF p.index = 0 THEN [ok |-> TRUE, props |-> <<>>]
          ELSE The({ [ok |-> t.ok, props |-> <<p>> \o t.props]
                     : t \in {PropList(m, addr + p.length + 1)} })
          : p \in {PropertyNew(m, addr)} })

\* The loop of Object::get_property and Object::get_property_opt from
\* addr: [ok, some, p]; some is FALSE at the terminator.
RECURSIVE FindProperty(_, _, _)
FindProperty(m, addr, index) ==
    The({ IF ~p.ok THEN [ok |-> FALSE, some |-> FALSE, p |-> PropFail]
          ELSE IF p.index = 0
          THEN [ok |-> TRUE, some |-> FALSE, p |-> PropFail]
          ELSE IF p.index = index THEN [ok |-> TRUE, some |-> TRUE, p |-> p]
          ELSE FindProperty(m, addr + p.length + 1, index)
          : p \in {PropertyNew(m, addr)} })

\* Object::get_property_opt: [ok, some, p]
get_property_opt(m, obj, index) ==
    FindProperty(m, obj.offset + 1 + obj.name.length, index)

\* Object::get_property: the property, or the default read as a property
\* at the address of the default word.  For index 0 the subtraction
\* index - 1 overflows: it panics in a build with overflow checks and wraps
\* otherwise, to the address two bytes below the table.
get_property(m, obj, index) ==
    The({ IF ~f.ok THEN PropFail
          ELSE IF f.some THEN f.p
          ELSE IF index = 0 /\ overflow_checks THEN PropFail
          ELSE PropertyNew(m, read_u16(m, 10) + (index - 1) * 2)
          : f \in {get_property_opt(m, obj, index)} })

\* A faulty variant of Object::get_next_property: the property asked for is
\* given back instead of the one that follows it.
get_next_property_same(m, obj, index) ==
    The({ IF ~l.ok THEN [ok |-> FALSE, some |-> FALSE, index |-> 0]
          ELSE IF l.props = <<>> THEN [ok |-> TRUE, some |-> FALSE, index |-> 0]
          ELSE IF index = 0
          THEN [ok |-> TRUE, some |-> TRUE, index |-> l.props[1].index]
          ELSE [ok |-> TRUE,
                some |-> \E k \in DOMAIN l.props : l.props[k].index = index,
                index |-> index]
          : l \in {PropList(m, obj.offset + 1 + obj.name.length)} })

\* Object::get_next_property: [ok, some, index]
get_next_property(m, obj, index) ==
    The({ IF ~l.ok THEN [ok |-> FALSE, some |-> FALSE, index |-> 0]
          ELSE IF index = 0
          THEN IF l.props = <<>> THEN [ok |-> TRUE, some |-> FALSE, index |-> 0]
               ELSE [ok |-> TRUE, some |-> TRUE, index |-> l.props[1].index]
          ELSE The({ IF hits = {} THEN [ok |-> TRUE, some |-> FALSE,
                                        index |-> 0]
                     ELSE The({ [ok |-> TRUE, some |-> TRUE,
                                 index |-> IF k < Len(l.props)
                                           THEN l.props[k + 1].index ELSE 0]
                                : k \in {The({k \in hits :
                                               \A j \in hits : k <= j})} })
                     : hits \in {{k \in DOMAIN l.props :
                                     l.props[k].index = index}} })
          : l \in {PropList(m, obj.offset + 1 + obj.name.length)} })

\* ------------------------------------------------------------------------
\* The arithmetic of Machine::execute
\* ------------------------------------------------------------------------

\* x as u16 for an integer x, and x as i16 for a u16 x.
AsU16(x) == x % 65536
AsI16(x) == IF x >= 32768 THEN x - 65536 ELSE x

\* The quotient and the remainder of Rust's / and %: the quotient is
\* truncated toward zero, the remainder has the sign of the dividend.
Abs(x) == IF x < 0 THEN -x ELSE x
Quot(a, b) ==
    IF (a < 0) = (b < 0) THEN Abs(a) \div Abs(b) ELSE -(Abs(a) \div Abs(b))
Rem(a, b) == a - b * Quot(a, b)

\* The low 16 bits of the product of two u16.
MulLow16(x, y) ==
    (x * (y % 256) + ((x * (y \div 256)) % 256) * 256) % 65536

\* x & y on u16, from bit n up.
RECURSIVE BitAnd(_, _, _)
BitAnd(x, y, n) ==
    IF n = 16 THEN 0
    ELSE (IF (x \div Pow2(n)) % 2 = 1 /\ (y \div Pow2(n)) % 2 = 1
          THEN Pow2(n) ELSE 0) + BitAnd(x, y, n + 1)

\* old + d in i16 for d = 1 or -1: [ok, val]; the sum that does not fit
\* panics in a build with overflow checks and wraps otherwise.
AddI16(old, d) ==
    IF old + d > 32767 \/ old + d < -32768
    THEN [ok |-> ~overflow_checks, val |-> AsI16(AsU16(old + d))]
    ELSE [ok |-> TRUE, val |-> old + d]

\* read_args! for the first n operands, read in order: [ok, vals, s]; an
\* operand that is missing panics (index out of bounds).
read_args(s, i, n) ==
    IF Len(i.args) < n THEN [ok |-> FALSE, vals |-> <<>>, s |-> s]
    ELSE read_all(s, SubSeq(i.args, 1, n), 1)

\* convert_arg!(.., Variable): the number of the variable the first operand
\* names, [ok, x, s].
\* A faulty conversion: the number of the operand taken as the variable
\* number whatever the operand's type.
var_arg_literal(s, i) ==
    IF i.args = <<>> THEN [ok |-> FALSE, x |-> 0, s |-> s]
    ELSE [ok |-> TRUE, x |-> i.args[1].v % 256, s |-> s]
var_arg(s, i) ==
    IF i.args = <<>> THEN [ok |-> FALSE, x |-> 0, s |-> s]
    ELSE IF i.args[1].tag = "Variable"
    THEN The({ [ok |-> r.ok, x |-> r.val % 256, s |-> r.s]
               : r \in {read_var(s, i.args[1])} })
    ELSE [ok |-> TRUE, x |-> i.args[1].v % 256, s |-> s]

\* The return of "div" and "mod" when the divisor is 0.
DivideByZero_stored == [st |-> "ok", val |-> 0]
DivideByZero == [st |-> "Break", val |-> 0]

\* What the arms of the two-operand arithmetic compute: [st, val].
Binary(name, x, y) ==
    CASE name = "add" -> [st |-> "ok", val |-> AsU16(Rem(x + y, 65536))]
      [] name = "sub" -> [st |-> "ok", val |-> AsU16(Rem(x - y, 65536))]
      [] name = "mul" -> [st |-> "ok", val |-> MulLow16(x, y)]
      [] name = "and" -> [st |-> "ok", val |-> BitAnd(x, y, 0)]
      [] name = "or" -> [st |-> "ok", val |-> x + y - BitAnd(x, y, 0)]
      [] name = "div" ->
            IF AsI16(y) = 0 THEN DivideByZero
            ELSE IF AsI16(x) = -32768 /\ AsI16(y) = -1
            THEN [st |-> "Panic", val |-> 0]
            ELSE [st |-> "ok", val |-> AsU16(Quot(AsI16(x), AsI16(y)))]
      [] name = "mod" ->
            IF AsI16(y) = 0 THEN DivideByZero
            ELSE IF AsI16(x) = -32768 /\ AsI16(y) = -1
            THEN [st |-> "Panic", val |-> 0]
            ELSE [st |-> "ok", val |-> AsU16(Rem(AsI16(x), AsI16(y)))]

\* "add", "sub", "mul", "and", "or", "div", "mod"
Exec_binary(s, i) ==
    The({ IF ~a.ok THEN Out("Panic", s)
          ELSE The({ IF v.st # "ok" THEN Out(v.st, a.s)
                     ELSE Store(a.s, i, v.val)
                     : v \in {Binary(Name(i), a.vals[1], a.vals[2])} })
          : a \in {read_args(s, i, 2)} })

\* What the arms of the two-operand branches test.
Compare(name, x, y) ==
    CASE name = "jl" -> AsI16(x) < AsI16(y)
      [] name = "jg" -> AsI16(x) > AsI16(y)
      [] name = "test" -> BitAnd(x, y, 0) = y

\* "jl", "jg", "test"
Exec_compare(s, i) ==
    The({ IF ~a.ok THEN Out("Panic", s)
          ELSE jump(a.s, i, Compare(Name(i), a.vals[1], a.vals[2]))
          : a \in {read_args(s, i, 2)} })

\* The any of "je": the operands from the k-th on are read until one is x.
\* [ok, hit, s]
RECURSIVE je_any(_, _, _, _)
je_any(s, x, args, k) ==
    IF k > Len(args) THEN [ok |-> TRUE, hit |-> FALSE, s |-> s]
    ELSE The({ IF ~r.ok THEN [ok |-> FALSE, hit |-> FALSE, s |-> r.s]
               ELSE IF r.val = x THEN [ok |-> TRUE, hit |-> TRUE, s |-> r.s]
               ELSE je_any(r.s, x, args, k + 1)
               : r \in {read_var(s, args[k])} })

\* "je"
Exec_je(s, i) ==
    The({ IF ~a.ok THEN Out("Panic", s)
          ELSE The({ IF ~c.ok THEN Out("Panic", s) ELSE jump(c.s, i, c.hit)
                     : c \in {je_any(a.s, a.vals[1], i.args, 2)} })
          : a \in {read_args(s, i, 1)} })

\* A handler that ends by writing val to the variable var, which is not a
\* return storage.
SetVar(s, var, val) ==
    The({ Out(IF w.ok THEN "Continue" ELSE "Panic", w.s)
          : w \in {write_var(s, var, val)} })

\* "inc_chk" (d = 1) and "dec_chk" (d = -1)
Exec_chk(s, i, d) ==
    The({ IF ~v.ok \/ Len(i.args) < 2 THEN Out("Panic", s)
          ELSE The({ IF ~y.ok THEN Out("Panic", s)
            ELSE The({ IF ~old.ok THEN Out("Panic", s)
              ELSE The({ IF ~n.ok THEN Out("Panic", s)
                ELSE The({ IF ~w.ok THEN Out("Panic", s)
                           ELSE jump(w.s, i, IF d = 1
                                             THEN n.val > AsI16(y.val)
                                             ELSE n.val < AsI16(y.val))
                           : w \in {write_var(old.s, RetVariable(v.x),
                                              AsU16(n.val))} })
                : n \in {AddI16(AsI16(old.val), d)} })
              : old \in {read_var(y.s, Variable(v.x))} })
            : y \in {read_var(v.s, i.args[2])} })
          : v \in {var_arg(s, i)} })

\* "inc" (d = 1) and "dec" (d = -1)
Exec_inc(s, i, d) ==
    The({ IF ~v.ok THEN Out("Panic", s)
          ELSE The({ IF ~old.ok THEN Out("Panic", s)
                     ELSE SetVar(old.s, RetVariable(v.x),
                                 AsU16(Rem(old.val + d, 65536)))
                     : old \in {read_var(v.s, Variable(v.x))} })
          : v \in {var_arg(s, i)} })

\* "store"
Exec_store(s, i) ==
    The({ IF ~v.ok \/ Len(i.args) < 2 THEN Out("Panic", s)
          ELSE The({ IF ~y.ok THEN Out("Panic", s)
                     ELSE SetVar(y.s, RetIndirect(v.x), y.val)
                     : y \in {read_var(v.s, i.args[2])} })
          : v \in {var_arg(s, i)} })

\* "load"
Exec_load(s, i) ==
    The({ IF ~v.ok THEN Out("Panic", s)
          ELSE The({ IF ~r.ok THEN Out("Panic", s) ELSE Store(r.s, i, r.val)
                     : r \in {read_var(v.s, Indirect(v.x))} })
          : v \in {var_arg(s, i)} })

\* ZIO::poll_input: [ready, io].  A line is ready when Enter has been
\* typed (Consuming); otherwise the port starts to listen.
\* (poll_input_ready is a faulty variant: a line is always ready.)
poll_input_ready(z) == [ready |-> TRUE, io |-> z]
poll_input(z) ==
    IF z.state = "Consuming" THEN [ready |-> TRUE, io |-> z]
    ELSE IF z.state = "None"
    THEN [ready |-> FALSE, io |-> [state |-> "Listening", input |-> <<>>]]
    ELSE [ready |-> FALSE, io |-> z]

\* A faulty ZIO::key_down: the key is taken in every state.
key_down_always(z, key) ==
    IF key = 13 THEN [z EXCEPT !.state = "Consuming"]
    ELSE [z EXCEPT !.input = Append(z.input, key)]
\* ZIO::key_down of the embedded port: the port after the key.  Enter ends
\* the line, another key is added to it, and a key that arrives while the
\* port is not listening is dropped.
KeyDown(z, key) ==
    IF z.state # "Listening" THEN z
    ELSE IF key = 13 THEN [z EXCEPT !.state = "Consuming"]
    ELSE [z EXCEPT !.input = Append(z.input, key)]

\* A faulty ZIO::input: the port stays as it is.
input_kept(z) == [line |-> z.input, io |-> z]
\* ZIO::input: the line, and the port back in state None with the line
\* still in it.
ZIOInput(z) == [line |-> z.input, io |-> [z EXCEPT !.state = "None"]]

\* str::trim and str::to_lowercase on character codes below 128.
Whitespace == {9, 10, 11, 12, 13, 32}
RECURSIVE TrimStart(_)
TrimStart(q) ==
    IF q # <<>> /\ q[1] \in Whitespace THEN TrimStart(Tail(q)) ELSE q
RECURSIVE TrimEnd(_)
TrimEnd(q) ==
    IF q # <<>> /\ q[Len(q)] \in Whitespace THEN TrimEnd(Front(q)) ELSE q
Trim(q) == TrimEnd(TrimStart(q))
ToLowercase(q) ==
    [k \in DOMAIN q |-> IF q[k] \in 65 .. 90 THEN q[k] + 32 ELSE q[k]]

\* str::split on the characters of delims: the pieces between the
\* delimiters, the empty ones included.
RECURSIVE Split(_, _)
Split(q, delims) ==
    IF \A k \in DOMAIN q : q[k] \notin delims THEN <<q>>
    ELSE LET k == CHOOSE j \in DOMAIN q :
                      /\ q[j] \in delims
                      /\ \A h \in 1 .. j - 1 : q[h] \notin delims
         IN  <<SubSeq(q, 1, k - 1)>> \o Split(SubSeq(q, k + 1, Len(q)), delims)

\* str::find: the byte index of the first occurrence of token in q.
Occurs(q, token, k) == SubSeq(q, k + 1, k + Len(token)) = token
Find(q, token) ==
    CHOOSE k \in 0 .. Len(q) - Len(token) :
        /\ Occurs(q, token, k)
        /\ \A h \in 0 .. k - 1 : ~Occurs(q, token, h)

\* The first loop of "sread": the characters k + 1 .. max_length of input
\* written to the text buffer at x.
RECURSIVE WriteText(_, _, _, _, _)
WriteText(m, x, input, k, max_length) ==
    IF k >= max_length THEN [ok |-> TRUE, mem |-> m]
    ELSE IF ~InMem(m, x + 1 + k) THEN [ok |-> FALSE, mem |-> m]
    ELSE WriteText(write_u8(m, x + 1 + k, input[k + 1]), x, input, k + 1,
                   max_length)

\* The second loop of "sread": the entries of the tokens k + 1 .. max_parse
\* written to the parse buffer at y.  index as u8 + 1 overflows for an
\* index of 255: it panics in a build with overflow checks and wraps
\* otherwise.
RECURSIVE WriteTokens(_, _, _, _, _, _)
WriteTokens(m, y, tokens, k, max_parse, input) ==
    IF k >= max_parse THEN [ok |-> TRUE, mem |-> m]
    ELSE LET offset == y + 2 + 4 * k
             token == tokens[k + 1]
             zs == get_word(dictionary, token)
             index == Find(input, token)
         IN  IF ~InMem(m, offset + 3)
                \/ (index % 256 = 255 /\ overflow_checks)
             THEN [ok |-> FALSE, mem |-> m]
             ELSE WriteTokens(
                      write_u8(write_u8(write_u16(m, offset,
                                   IF zs.some THEN zs.word.offset % 65536
                                   ELSE 0),
                               offset + 2, Len(token)),
                          offset + 3, (index % 256) + 1),
                      y, tokens, k + 1, max_parse, input)

\* The body of "sread" after its operands were read (the fields are then
\* a): the text buffer at x, the parse buffer at y, input the line trimmed
\* and in lower case.
ReadInto(s, a, x, y, input) ==
    The({ IF ~t.ok \/ ~InMem(t.mem, x + max_length + 1) \/ ~InMem(t.mem, y + 1)
          THEN Out("Panic", s)
          ELSE The({ IF ~p.ok THEN Out("Panic", s)
                     ELSE Out("Continue",
                              [a EXCEPT !.mem = p.mem,
                                        !.io = ZIOInput(s.io).io])
                     : p \in {WriteTokens(write_u8(ended, y + 1, max_parse),
                                          y, tokens, 0, max_parse, input)
                              : ended \in {write_u8(t.mem, x + max_length + 1, 0)},
                                max_parse \in {Min(IF y = x + max_length + 1
                                                   THEN 0 ELSE t.mem[y],
                                                   Len(tokens))}} })
          : t \in {WriteText(a.mem, x, input, 0, max_length)
                   : max_length \in {Min(read_u8(a.mem, x), Len(input))}},
            max_length \in {Min(read_u8(a.mem, x), Len(input))},
            tokens \in {Split(input, {32} \cup {dictionary.separators[k]
                                       : k \in DOMAIN dictionary.separators})} })

\* "sread", once a line is ready: the operands, ZIO::input, the text
\* buffer and the parse buffer.
ReadLine(s, i) ==
    IF Len(i.args) < 2 THEN Out("Panic", s)
    ELSE The({ IF ~a.ok \/ ~InMem(a.s.mem, header.dynamic_start + a.vals[1])
               THEN Out("Panic", s)
               ELSE ReadInto(s, a.s, header.dynamic_start + a.vals[1],
                             header.dynamic_start + a.vals[2],
                             ToLowercase(Trim(ZIOInput(s.io).line)))
               : a \in {read_all(s, SubSeq(i.args, 1, 2), 1)} })

\* "sread"
Exec_sread(s, i) ==
    The({ IF ~r.ready THEN Out("GetInput", [s EXCEPT !.io = r.io])
          ELSE ReadLine(s, i)
          : r \in {poll_input(s.io)} })

\* "pull"
Exec_pull(s, i) ==
    The({ IF ~v.ok THEN Out("Panic", s)
          ELSE The({ IF ~r.ok THEN Out("Panic", s)
                     ELSE SetVar(r.s, RetIndirect(v.x), r.val)
                     : r \in {read_var(v.s, Variable(0))} })
          : v \in {var_arg(s, i)} })

\* "loadw" (scale = 2) and "loadb" (scale = 1)
Exec_loadw(s, i, scale) ==
    The({ IF ~a.ok THEN Out("Panic", s)
          ELSE The({ IF scale = 2 /\ InMem16(a.s.mem, addr)
                     THEN Store(a.s, i, read_u16(a.s.mem, addr))
                     ELSE IF scale = 1 /\ InMem(a.s.mem, addr)
                     THEN Store(a.s, i, read_u8(a.s.mem, addr))
                     ELSE Out("Panic", s)
                     : addr \in {a.vals[1] + scale * a.vals[2]} })
          : a \in {read_args(s, i, 2)} })

\* "storew" (scale = 2) and "storeb" (scale = 1)
Exec_storew(s, i, scale) ==
    The({ IF ~a.ok THEN Out("Panic", s)
          ELSE The({ IF scale = 2 /\ InMem16(a.s.mem, addr)
                     THEN Out("Continue",
                              [a.s EXCEPT !.mem = write_u16(a.s.mem, addr,
                                                            a.vals[3])])
                     ELSE IF scale = 1 /\ InMem(a.s.mem, addr)
                     THEN Out("Continue",
                              [a.s EXCEPT !.mem = write_u8(a.s.mem, addr,
                                                       a.vals[3] % 256)])
                     ELSE Out("Panic", s)
                     : addr \in {a.vals[1] + scale * a.vals[2]} })
          : a \in {read_args(s, i, 3)} })

\* "get_prop"
Exec_get_prop(s, i) ==
    The({ IF a.st # "ok" THEN Out(a.st, a.s)
          ELSE The({ IF ~p.ok THEN Out("Panic", s)
                     ELSE The({ IF ~v.ok THEN Out("Panic", s)
                                ELSE Store(a.s, i, v.val)
                                : v \in {PropertyRead(a.s.mem, p)} })
                     : p \in {get_property(a.s.mem, a.obj, a.y)} })
          : a \in {read_object_and(s, i.args)} })

\* "put_prop"
Exec_put_prop(s, i) ==
    The({ IF a.st # "ok" THEN Out(a.st, a.s)
          ELSE IF Len(i.args) < 3 THEN Out("Panic", s)
          ELSE The({ IF ~val.ok THEN Out("Panic", s)
            ELSE The({ IF ~p.ok THEN Out("Panic", s)
              ELSE The({ IF ~w.ok THEN Out("Panic", s)
                         ELSE Out("Continue", [val.s EXCEPT !.mem = w.mem])
                         : w \in {PropertyWrite(val.s.mem, p, val.val)} })
              : p \in {get_property(val.s.mem, a.obj, a.y)} })
            : val \in {read_var(a.s, i.args[3])} })
          : a \in {read_object_and(s, i.args)} })

\* "get_prop_addr"
Exec_get_prop_addr(s, i) ==
    The({ IF a.st # "ok" THEN Out(a.st, a.s)
          ELSE The({ IF ~f.ok THEN Out("Panic", s)
                     ELSE IF ~f.some THEN Store(a.s, i, 0)
                     ELSE IF AsU16(f.p.offset) + 1 > 65535
                     THEN IF overflow_checks THEN Out("Panic", s)
                          ELSE Store(a.s, i, 0)
                     ELSE Store(a.s, i, AsU16(f.p.offset) + 1)
                     : f \in {get_property_opt(a.s.mem, a.obj, a.y)} })
          : a \in {read_object_and(s, i.args)} })

\* "get_prop_len"
Exec_get_prop_len(s, i) ==
    The({ IF ~a.ok THEN Out("Panic", s)
          ELSE IF a.vals[1] = 0 THEN Store(a.s, i, 0)
          ELSE The({ IF ~p.ok THEN Out("Panic", s)
                     ELSE Store(a.s, i, p.length)
                     : p \in {PropertyNew(a.s.mem, a.vals[1] - 1)} })
          : a \in {read_args(s, i, 1)} })

\* "get_next_prop"
Exec_get_next_prop(s, i) ==
    The({ IF a.st # "ok" THEN Out(a.st, a.s)
          ELSE The({ IF ~n.ok THEN Out("Panic", s)
                     ELSE IF ~n.some THEN Out("Break", a.s)
                     ELSE Store(a.s, i, n.index)
                     : n \in {get_next_property(a.s.mem, a.obj, a.y)} })
          : a \in {read_object_and(s, i.args)} })

\* "print_num", "print_char", "print_addr", "print_paddr": what is printed
\* is not kept; the arm panics on a character that is not UTF-8 by itself
\* and on a string that leaves the image.
Exec_print(s, i) ==
    The({ IF ~a.ok THEN Out("Panic", s)
          ELSE IF Name(i) = "print_char" /\ a.vals[1] % 256 >= 128
          THEN Out("Panic", s)
          ELSE IF Name(i) = "print_addr"
                  /\ ~ZStringNew(a.s.mem, a.vals[1]).ok
          THEN Out("Panic", s)
          ELSE IF Name(i) = "print_paddr"
                  /\ ~ZStringNew(a.s.mem, 2 * a.vals[1]).ok
          THEN Out("Panic", s)
          ELSE Out("Continue", a.s)
          : a \in {read_args(s, i, 1)} })

\* "random": a range of 0 or less seeds the generator and stores 0, another
\* range stores the word drawn modulo the range, plus 1.
Exec_random(s, i) ==
    The({ IF ~a.ok THEN Out("Panic", s)
          ELSE IF AsI16(a.vals[1]) <= 0 THEN Store(a.s, i, 0)
          ELSE Store(a.s, i, (s.rnd % a.vals[1]) + 1)
          : a \in {read_args(s, i, 1)} })

\* "jump"; an address below 0 stands for the usize it wraps to, beyond
\* the image.
Exec_jump(s, i) ==
    The({ IF ~a.ok THEN Out("Panic", s)
          ELSE Out("Continue",
                   [a.s EXCEPT !.ip = s.ip + i.length + AsI16(a.vals[1]) - 2])
          : a \in {read_args(s, i, 1)} })

\* "ret"
Exec_ret(s, i) ==
    The({ IF ~a.ok THEN Out("Panic", s) ELSE ret(a.s, a.vals[1])
          : a \in {read_args(s, i, 1)} })

\* "ret_popped"
Exec_ret_popped(s) ==
    The({ IF ~x.ok THEN Out("Panic", s) ELSE ret(x.s, x.val)
          : x \in {read_var(s, Variable(0))} })

\* "jz"
Exec_jz(s, i) ==
    The({ IF ~a.ok THEN Out("Panic", s) ELSE jump(a.s, i, a.vals[1] = 0)
          : a \in {read_args(s, i, 1)} })

\* "push"
Exec_push(s, i) ==
    The({ IF ~a.ok THEN Out("Panic", s)
          ELSE SetVar(a.s, RetVariable(0), a.vals[1])
          : a \in {read_args(s, i, 1)} })

\* "pop"
Exec_pop(s) ==
    The({ Out(IF x.ok THEN "Continue" ELSE "Panic", x.s)
          : x \in {read_var(s, Variable(0))} })

\* "not"
Exec_not(s, i) ==
    The({ IF ~a.ok THEN Out("Panic", s)
          ELSE Store(a.s, i, 65535 - a.vals[1])
          : a \in {read_args(s, i, 1)} })

\* "print_obj"
Exec_print_obj(s, i) ==
    The({ Out(IF a.st = "ok" THEN "Continue" ELSE a.st, a.s)
          : a \in {read_object_only(s, i.args)} })

\* Machine::step sets finished and leaves its loop when execute returned
\* Break or CleanExit; it leaves the loop without setting finished on
\* GetInput and goes round it on Continue.  (Finishes_break is a faulty
\* variant: only Break finishes the machine.)
Finishes_break(st) == st = "Break"
Finishes(st) == st \in {"Break", "CleanExit"}

\* The end of Machine::execute and the match of Machine::step on what the
\* handler returned for the instruction i, the image being m.
Apply(m, i, r) ==
    /\ mstate' = r.st
    /\ known' = known \cup (i.offset .. i.offset + i.length - 1)
    /\ last' = [instr |-> i, rw |-> r.s.rw]
    /\ program' = program \cup {i.offset}
    /\ obj0' = (obj0 \/ r.s.zero)
    /\ IF r.st \in {"Panic", "Hang"}
       THEN /\ mem' = m
            /\ UNCHANGED <<stack, frames, ip, finished, calls, io>>
       ELSE /\ mem' = r.s.mem
            /\ stack' = r.s.stack
            /\ frames' = r.s.frames
            /\ calls' = r.s.calls
            /\ io' = r.s.io
            /\ ip' = IF r.st = "Continue" /\ r.s.ip = ip
                     THEN ip + i.length ELSE r.s.ip
            /\ finished' = Finishes(r.st)
    /\ UNCHANGED <<header, overflow_checks, idle, dictionary>>

\* The story file names local variables only where they exist: inside a
\* routine, and up to the number of locals the routine declares.
LocalExists(v) ==
    (v >= 1 /\ v <= 15) => (frames # <<>> /\ v <= Top(frames).num_locals)
LocalsExist(i) ==
    /\ \A k \in DOMAIN i.args :
           i.args[k].tag = "Variable" => LocalExists(i.args[k].v)
    /\ i.ret.tag = "Variable" => LocalExists(i.ret.v)

\* One iteration of the loop of Machine::step on a story file whose bytes
\* at ip are code: what Machine::decode gives, an instruction i named name
\* in the image m, with the fields s that Machine::execute starts from.
\* The arm of the match of Machine::execute for that name runs on s and i,
\* and Apply ends the iteration with what the arm returned. The set is
\* empty when the story file cannot have these bytes at ip, or the loop
\* does not run.
Decode(code, name) ==
    IF Running /\ MayHold(code)
    THEN {d \in {[m |-> m, i |-> InstructionNew(m, ip), s |-> Cur(m)]
                 : m \in {Overlay(mem, ip, code)}} :
             /\ d.i.ok
             /\ d.i.length = Len(code)
             /\ Name(d.i) = name
             /\ LocalsExist(d.i)}
    ELSE {}

\* ------------------------------------------------------------------------
\* The object tree of an image, as the links of the entries give it
\* ------------------------------------------------------------------------

Attrib(m, k) ==
    U32(read_u16(m, ObjectAddr(m, k)), read_u16(m, ObjectAddr(m, k) + 2))
Parent(m, k) == read_u8(m, ObjectAddr(m, k) + 4)
Sibling(m, k) == read_u8(m, ObjectAddr(m, k) + 5)
Child(m, k) == read_u8(m, ObjectAddr(m, k) + 6)

\* The sibling chain from object k on, at most n objects of it.
RECURSIVE Chain(_, _, _)
Chain(m, k, n) ==
    IF k \notin Objects \/ n = 0 THEN <<>>
    ELSE <<k>> \o Chain(m, Sibling(m, k), n - 1)

\* The sibling chain from k on ends (with the link 0) after at most n
\* objects.
RECURSIVE ChainEnds(_, _, _)
ChainEnds(m, k, n) ==
    IF k = 0 THEN TRUE
    ELSE IF k \notin Objects \/ n = 0 THEN FALSE
    ELSE ChainEnds(m, Sibling(m, k), n - 1)

\* The children of object p, in the order of its sibling chain.
ChildrenSeq(m, p) == Chain(m, Child(m, p), NumObjects)

Occurrences(q, x) == Cardinality({j \in 1 .. Len(q) : q[j] = x})

\* Following the parent links from k leads to 0 in at most n steps.
RECURSIVE ParentEnds(_, _, _)
ParentEnds(m, k, n) ==
    IF k = 0 THEN TRUE
    ELSE IF k \notin Objects \/ n = 0 THEN FALSE
    ELSE ParentEnds(m, Parent(m, k), n - 1)

\* The object tree of the image m is well formed: the links are indices of
\* the table, every sibling chain ends, X.parent = Y exactly when X occurs
\* exactly once in the chain that starts at Y.child, and no object is its
\* own ancestor.
WellFormed(m) ==
    /\ \A k \in Objects :
           /\ Parent(m, k) \in 0 .. NumObjects
           /\ Sibling(m, k) \in 0 .. NumObjects
           /\ Child(m, k) \in 0 .. NumObjects
    /\ \A y \in Objects : ChainEnds(m, Child(m, y), NumObjects)
    /\ \A x \in Objects, y \in Objects :
           (Parent(m, x) = y) <=> (Occurrences(ChildrenSeq(m, y), x) = 1)
    /\ \A x \in Objects : ParentEnds(m, x, NumObjects)

\* ------------------------------------------------------------------------
\* The object tree under insert_obj and remove_obj
\* ------------------------------------------------------------------------

\* The instruction bytes the object actions are tried on: long form with
\* two small constants, short form with one small constant.
ObjOperands == 0 .. NumObjects

insert_obj ==
    \E o \in ObjOperands, d \in ObjOperands :
        \E got \in Decode(<<14, o, d>>, "insert_obj") :
            Apply(got.m, got.i, Exec_insert_obj(got.s, got.i))

remove_obj ==
    \E o \in ObjOperands :
        \E got \in Decode(<<153, o>>, "remove_obj") :
            Apply(got.m, got.i, Exec_remove_obj(got.s, got.i))

\* The attribute words of the image's objects.
AttrOf == [k \in Objects |-> U32(256 * k, 128 + k)]

\* The object tree of the image is any forest, the children of an object in
\* ascending or in descending order of index.
InitTree ==
    \E par \in Forests, up \in BOOLEAN :
        MachineNew(Image(ImageBytes(par, up, AttrOf, ZeroGlobals,
                                    ZeroCode(CodeLen))), {})

NextTree ==
    \/ insert_obj
    \/ remove_obj

SpecTree == InitTree /\ [][NextTree]_vars

\* The image a step ran on: the bytes of the instruction it executed are
\* those the step fixed.
ImageBefore ==
    [a \in DOMAIN mem |-> IF a \in known' \ known THEN mem'[a] ELSE mem[a]]

\* The instruction executed last and its operands (small constants).
LastName == IF last.instr.ok THEN Name(last.instr) ELSE "none"
LastArg(k) == IF k <= Len(last.instr.args) THEN last.instr.args[k].v ELSE 0

\* C6 as the claim states it: after insert_obj(O, D) on a well-formed tree,
\* O and D non-zero and different, O.parent = D, D.child = O and O.sibling
\* is the value D.child had before the instruction.
C6_SiblingIsOldChildOfDest ==
    [][(/\ LastName' = "insert_obj"
        /\ LastArg(1)' # 0 /\ LastArg(2)' # 0 /\ LastArg(1)' # LastArg(2)'
        /\ WellFormed(mem))
       => (/\ mstate' = "Continue"
           /\ Parent(mem', LastArg(1)') = LastArg(2)'
           /\ Child(mem', LastArg(2)') = LastArg(1)'
           /\ Sibling(mem', LastArg(1)') = Child(mem, LastArg(2)'))]_vars

\* C6 amended: after insert_obj(O, D) on a well-formed tree, O and D
\* non-zero and different, O.parent = D, D.child = O, and O.sibling is the
\* value D.child has once O is detached: the value D.child had before the
\* instruction, or O's former sibling when O was D's first child.
C6_InsertLinks ==
    [][(/\ LastName' = "insert_obj"
        /\ LastArg(1)' # 0 /\ LastArg(2)' # 0 /\ LastArg(1)' # LastArg(2)'
        /\ WellFormed(mem))
       => (/\ mstate' = "Continue"
           /\ Parent(mem', LastArg(1)') = LastArg(2)'
           /\ Child(mem', LastArg(2)') = LastArg(1)'
           /\ Sibling(mem', LastArg(1)') =
                  IF Child(mem, LastArg(2)') = LastArg(1)'
                  THEN Sibling(mem, LastArg(1)')
                  ELSE Child(mem, LastArg(2)'))]_vars

\* insert_obj(O, D) has run as the first instruction, on the well-formed
\* tree of the image, and O is now the first of several children of D.
C6_Witness ==
    /\ LastName = "insert_obj"
    /\ mstate = "Continue"
    /\ ip = CodeBase + last.instr.length
    /\ LastArg(1) # 0 /\ LastArg(2) # 0 /\ LastArg(1) # LastArg(2)
    /\ Child(mem, LastArg(2)) = LastArg(1)
    /\ Sibling(mem, LastArg(1)) # 0
    /\ WellFormed(mem)

\* C7: after remove_obj(O) on a well-formed tree, O non-zero, O.parent = 0
\* and O.sibling = 0, no child link and no sibling link is O, and the
\* children of every object are the former ones without O, in the same
\* order.
C7_RemoveDetaches ==
    [][(/\ LastName' = "remove_obj"
        /\ LastArg(1)' # 0
        /\ WellFormed(mem))
       => (/\ mstate' = "Continue"
           /\ Parent(mem', LastArg(1)') = 0
           /\ Sibling(mem', LastArg(1)') = 0
           /\ \A k \in Objects :
                  /\ Child(mem', k) # LastArg(1)'
                  /\ Sibling(mem', k) # LastArg(1)'
           /\ \A p \in Objects :
                  ChildrenSeq(mem', p) =
                      SelectSeq(ChildrenSeq(mem, p),
                                LAMBDA x : x # LastArg(1)'))]_vars

\* remove_obj(O) has run as the first instruction and the objects around O
\* are still the children of one object: O was the middle one of three.
C7_Witness ==
    /\ LastName = "remove_obj"
    /\ mstate = "Continue"
    /\ ip = CodeBase + last.instr.length
    /\ LastArg(1) = 2
    /\ Parent(mem, 2) = 0
    /\ \E p \in Objects : ChildrenSeq(mem, p) = <<1, 3>>

\* ------------------------------------------------------------------------
\* The attribute opcodes
\* ------------------------------------------------------------------------

\* Bytes of the code window of the images the attributes are exercised on.
AttrCodeLen == 7

\* Branch descriptors: one byte, offset 3, branch when the condition is
\* true (195) or false (67).
BranchBytes == {195, 67}

\* The operands the attribute actions are tried on: the first and the last
\* object and object 0; attribute numbers as small constants, and G00 and
\* G01 read as variables.
AttrObjects == {0, 1, NumObjects}
AttrNumbers == {0, 7, 8, 31, 32, 255}
AttrGlobals == <<256, 31>>

\* The first byte of a long-form instruction: its second operand is a small
\* constant (y < 256) or the variable y - 256.
LongOp(opcode, y) == IF y >= 256 THEN opcode + 32 ELSE opcode
AttrInputs == AttrNumbers \cup {256 + 16, 256 + 17}

test_attr ==
    \E o \in AttrObjects, y \in AttrInputs, b \in BranchBytes :
        \E got \in Decode(<<LongOp(10, y), o, y % 256, b>>, "test_attr") :
            Apply(got.m, got.i, Exec_test_attr(got.s, got.i))

set_attr ==
    \E o \in AttrObjects, y \in AttrInputs :
        \E got \in Decode(<<LongOp(11, y), o, y % 256>>, "set_attr") :
            Apply(got.m, got.i, Exec_set_attr(got.s, got.i))

clear_attr ==
    \E o \in AttrObjects, y \in AttrInputs :
        \E got \in Decode(<<LongOp(12, y), o, y % 256>>, "clear_attr") :
            Apply(got.m, got.i, Exec_clear_attr(got.s, got.i))

\* The attribute words the images start with.
AttrWords == {U32(0, 0), U32(65535, 65535), U32(32896, 32896)}
NoParents == [k \in Objects |-> 0]

InitAttr ==
    \E w \in AttrWords :
        MachineNew(Image(ImageBytes(NoParents, TRUE, [k \in Objects |-> w],
                                    AttrGlobals, ZeroCode(AttrCodeLen))), {})

NextAttr ==
    \/ test_attr
    \/ set_attr
    \/ clear_attr

SpecAttr == InitAttr /\ [][NextAttr]_vars

\* The value of the k-th operand of the instruction executed last: a
\* constant, or the global variable it names, read from the image m.
LastVal(m, k) ==
    IF k > Len(last.instr.args) THEN 0
    ELSE IF last.instr.args[k].tag = "Variable"
    THEN read_u16(m, header.globals + (last.instr.args[k].v - 16) * 2)
    ELSE last.instr.args[k].v

Bit(w, b) ==
    IF b >= 16 THEN (w.hi \div Pow2(b - 16)) % 2 ELSE (w.lo \div Pow2(b)) % 2

\* The outcome of the test of the branch instruction a step executed: the
\* branch (offset 3) was taken exactly when the condition had the value the
\* descriptor asks for.
TestedTrue ==
    IF ip' # ip + last'.instr.length THEN last'.instr.compare.v
    ELSE ~last'.instr.compare.v

\* C8: for a non-zero object O and an attribute a in 0..31, set_attr(O, a)
\* sets bit 31-a of O's attribute word and clear_attr(O, a) clears it, no
\* other bit of the word changes, test_attr(O, a) is true exactly when bit
\* 31-a is set, and test_attr(O, a) right after set_attr(O, a) is true and
\* right after clear_attr(O, a) is false.
C8_AttrRoundTrip ==
    [][(/\ LastName' \in {"set_attr", "clear_attr", "test_attr"}
        /\ LastArg(1)' # 0
        /\ LastVal(mem, 2)' <= 31)
       => (/\ mstate' = "Continue"
           /\ LastName' = "set_attr" =>
                  \A b \in 0 .. 31 :
                      Bit(Attrib(mem', LastArg(1)'), b) =
                          IF b = 31 - LastVal(mem, 2)' THEN 1
                          ELSE Bit(Attrib(mem, LastArg(1)'), b)
           /\ LastName' = "clear_attr" =>
                  \A b \in 0 .. 31 :
                      Bit(Attrib(mem', LastArg(1)'), b) =
                          IF b = 31 - LastVal(mem, 2)' THEN 0
                          ELSE Bit(Attrib(mem, LastArg(1)'), b)
           /\ LastName' = "test_attr" =>
                  /\ mem' = ImageBefore
                  /\ TestedTrue <=>
                         Bit(Attrib(mem, LastArg(1)'),
                             31 - LastVal(mem, 2)') = 1
                  /\ (/\ LastName \in {"set_attr", "clear_attr"}
                      /\ mstate = "Continue"
                      /\ LastArg(1) = LastArg(1)'
                      /\ LastVal(mem, 2) = LastVal(mem, 2)')
                     => (TestedTrue <=> LastName = "set_attr"))]_vars

\* test_attr(O, a) has run right after set_attr(O, a) on an object whose
\* attribute a was clear in the image, and attribute a is set.
C8_Witness ==
    /\ LastName = "test_attr"
    /\ mstate = "Continue"
    /\ last.instr.offset = CodeBase + 3
    /\ LastArg(1) = NumObjects
    /\ LastVal(mem, 2) = 7
    /\ Attrib(mem, NumObjects) = U32(256, 0)

\* C10: test_attr, set_attr and clear_attr given an attribute number
\* greater than 31 end in Break and leave every byte of the image as it
\* was.
C10_AttrOutOfRange ==
    [][(/\ LastName' \in {"set_attr", "clear_attr", "test_attr"}
        /\ LastVal(mem, 2)' > 31)
       => (mstate' = "Break" /\ finished' /\ mem' = ImageBefore)]_vars

\* set_attr has run on a non-zero object with the attribute number 256,
\* read from G00, and ended in Break.
C10_Witness ==
    /\ LastName = "set_attr"
    /\ LastArg(1) # 0
    /\ last.instr.args[2].tag = "Variable"
    /\ LastVal(mem, 2) = 256
    /\ mstate = "Break"

\* ------------------------------------------------------------------------
\* All the object opcodes together
\* ------------------------------------------------------------------------

\* get_parent, get_child and get_sibling store to the stack, to the first
\* local or to G00; get_child and get_sibling branch over a byte or, with
\* the descriptor 193, return 1 on an object found.
ObjStores == {0, 1, 16}

get_parent ==
    \E o \in ObjOperands, st \in ObjStores :
        \E got \in Decode(<<147, o, st>>, "get_parent") :
            Apply(got.m, got.i, Exec_get_parent(got.s, got.i))

get_child ==
    \E o \in ObjOperands, st \in ObjStores, b \in BranchBytes \cup {193} :
        \E got \in Decode(<<146, o, st, b>>, "get_child") :
            Apply(got.m, got.i, Exec_get_child(got.s, got.i))

get_sibling ==
    \E o \in ObjOperands, st \in ObjStores, b \in BranchBytes \cup {193} :
        \E got \in Decode(<<145, o, st, b>>, "get_sibling") :
            Apply(got.m, got.i, Exec_get_sibling(got.s, got.i))

jin ==
    \E o \in ObjOperands, d \in ObjOperands, b \in BranchBytes :
        \E got \in Decode(<<6, o, d, b>>, "jin") :
            Apply(got.m, got.i, Exec_jin(got.s, got.i))

\* The forests in which every object is a root or a child of object 1.
Stars == {par \in Forests : \A k \in Objects : par[k] \in {0, 1}}

InitObj ==
    \E par \in Stars :
        MachineNew(Image(ImageBytes(par, TRUE, AttrOf, AttrGlobals,
                                    ZeroCode(CodeLen))), {})

NextObj ==
    \/ insert_obj
    \/ remove_obj
    \/ get_parent
    \/ get_child
    \/ get_sibling
    \/ jin
    \/ test_attr
    \/ set_attr
    \/ clear_attr

SpecObj == InitObj /\ [][NextObj]_vars

\* The opcodes that take an object as their first operand.
ObjectOpcodes ==
    {"insert_obj", "remove_obj", "get_parent", "get_child", "get_sibling",
     "jin", "test_attr", "set_attr", "clear_attr"}

\* C9: object 0 is never dereferenced.  Whatever object opcodes have run
\* from a well-formed tree, Object::new was never called with index 0, and
\* an opcode whose object operand (for insert_obj, either one) is 0 has
\* ended in Break.
C9_ObjectZeroNeverRead ==
    /\ ~obj0
    /\ (/\ LastName \in ObjectOpcodes
        /\ (LastArg(1) = 0 \/ (LastName = "insert_obj" /\ LastArg(2) = 0)))
       => mstate = "Break"

\* ------------------------------------------------------------------------
\* Calls and returns: a story file with two routines, one without locals
\* and one with two
\* ------------------------------------------------------------------------

\* The length of the code window.
CallCodeLen == 28
\* The deepest frame stack and evaluation stack a call or a push is taken
\* at.
MaxFrames == 2
MaxStack == 2

RoutineBase == CodeBase + (CodeBase % 2)
\* The routine without locals, the routine with two locals and their
\* defaults.
R0 == RoutineBase + 8
R2 == RoutineBase + 14
LocalDefaults == <<4369, 8738>>
Pack(addr) == addr \div 2

CallCode ==
    [k \in 1 .. CallCodeLen |->
        IF k - 1 = R2 - CodeBase THEN 2
        ELSE IF k - 1 > R2 - CodeBase /\ k - 1 <= R2 - CodeBase + 4
        THEN Flatten([d \in 1 .. 2 |-> W(LocalDefaults[d])])[k - 1 - (R2 - CodeBase)]
        ELSE 0]
RoutineHeaders == {R0} \cup (R2 .. R2 + 4)

CallTargets == {0, Pack(R0), Pack(R2)}
CallStores == {0, 1, 16}
CallGlobals == <<Pack(R2)>> \o [k \in 1 .. NumGlobals - 1 |-> 0]
\* call with the routine as a small constant, as a large constant, in a
\* variable (the stack, a global), and with one, three and popped arguments.
CallForms ==
    {<<224, 127, t, st>> : t \in CallTargets, st \in CallStores}
    \cup {<<224, 63, 0, t, 16>> : t \in CallTargets}
    \cup {<<224, 191, v, 0>> : v \in {0, 16, 17}}
    \cup {<<224, 95, Pack(R2), a, st>> : a \in {0, 1}, st \in {0, 16}}
    \cup {<<224, 85, t, 7, 8, 9, 17>> : t \in {Pack(R0), Pack(R2)}}
    \cup {<<224, 111, Pack(R2), 0, 1>>}

\* The story file has at most MaxProgram instructions.
MaxProgram == 4
ProgramFits == Cardinality(program \cup {ip}) <= MaxProgram

call_entry ==
    /\ ProgramFits
    /\ Len(frames) < MaxFrames
    /\ \E code \in CallForms :
           \E got \in Decode(code, "call") :
               Apply(got.m, got.i, call(got.s, got.i))
\* The calls of the story files whose routines return.
ReturningCalls ==
    {<<224, 127, Pack(R0), st>> : st \in CallStores}
    \cup {<<224, 63, 0, Pack(R2), 16>>, <<224, 191, 0, 0>>}
    \cup {<<224, 95, Pack(R2), a, 0>> : a \in {0, 1}}
op_call ==
    /\ ProgramFits
    /\ Len(frames) < MaxFrames
    /\ \E code \in ReturningCalls :
           \E got \in Decode(code, "call") :
               Apply(got.m, got.i, call(got.s, got.i))
op_ret ==
    /\ ProgramFits
    /\ \E code \in {<<155, 5>>, <<171, 0>>, <<171, 1>>} :
           \E got \in Decode(code, "ret") :
               Apply(got.m, got.i, Exec_ret(got.s, got.i))
rtrue ==
    /\ ProgramFits
    /\ \E got \in Decode(<<176>>, "rtrue") :
           Apply(got.m, got.i, ret(got.s, 1))
rfalse ==
    /\ ProgramFits
    /\ \E got \in Decode(<<177>>, "rfalse") :
           Apply(got.m, got.i, ret(got.s, 0))
ret_popped ==
    /\ ProgramFits
    /\ \E got \in Decode(<<184>>, "ret_popped") :
           Apply(got.m, got.i, Exec_ret_popped(got.s))
print_ret ==
    /\ ProgramFits
    /\ \E got \in Decode(<<179, 148, 165>>, "print_ret") :
           Apply(got.m, got.i, ret(got.s, 1))
\* jz on a constant and on the first local, branching to a return of 0 or
\* of 1 or over the call that follows.
jz ==
    /\ ProgramFits
    /\ \E code \in {<<144, 0, 192>>, <<144, 0, 193>>, <<144, 1, 64>>,
                     <<160, 1, 199>>} :
           \E got \in Decode(code, "jz") :
               Apply(got.m, got.i, Exec_jz(got.s, got.i))
push ==
    /\ ProgramFits
    /\ Len(stack) < MaxStack
    /\ \E x \in {0, Pack(R0)} :
           \E got \in Decode(<<232, 127, x>>, "push") :
               Apply(got.m, got.i, Exec_push(got.s, got.i))
pop ==
    /\ ProgramFits
    /\ \E got \in Decode(<<185>>, "pop") :
           Apply(got.m, got.i, Exec_pop(got.s))

InitCall ==
    MachineNew(Image(ImageBytes(NoParents, TRUE, AttrOf, CallGlobals,
                                CallCode)),
               RoutineHeaders)

NextCall ==
    \/ call_entry
    \/ push

NextRet ==
    \/ op_call
    \/ op_ret
    \/ rtrue
    \/ rfalse
    \/ ret_popped
    \/ print_ret
    \/ jz
    \/ push
    \/ pop

SpecRet == InitCall /\ [][NextRet]_vars
SpecCall == InitCall /\ [][NextCall]_vars

\* ------------------------------------------------------------------------
\* Every opcode: story files of at most MaxOps instructions over the image
\* with the two routines
\* ------------------------------------------------------------------------

\* The bytes of an instruction, as Instruction::new reads them: the types
\* of the operands (0 large, 1 small, 2 variable, 3 omitted) and the
\* operands.
TypeBits(a) == IF a.tag = "Large" THEN 0 ELSE IF a.tag = "Small" THEN 1 ELSE 2
ArgBytes(a) == IF a.tag = "Large" THEN W(a.v) ELSE <<a.v>>
TypeByte(args) ==
    LET T(k) == IF k <= Len(args) THEN TypeBits(args[k]) ELSE 3
    IN  64 * T(1) + 16 * T(2) + 4 * T(3) + T(4)
\* short form
Enc1(opcode, a) == <<128 + 16 * TypeBits(a) + opcode>> \o ArgBytes(a)
\* variable form, of a two-operand opcode (192) or a variable one (224)
EncVar(first, opcode, args) ==
    <<first + opcode, TypeByte(args)>>
        \o Flatten([k \in DOMAIN args |-> ArgBytes(args[k])])
\* long form, or variable form when an operand is a large constant
Enc2(opcode, a, b) ==
    IF a.tag = "Large" \/ b.tag = "Large" THEN EncVar(192, opcode, <<a, b>>)
    ELSE <<opcode + (IF a.tag = "Variable" THEN 64 ELSE 0)
                  + (IF b.tag = "Variable" THEN 32 ELSE 0), a.v, b.v>>

\* The story file has at most MaxOps instructions, and those before the
\* last one are calls and pushes: they give the last one a routine with
\* locals to run in, or a word on the stack.
MaxOps == 2
OpsFit ==
    /\ Cardinality(program \cup {ip}) <= MaxOps
    /\ program # {} => Name(last.instr) \in {"call", "push"}

\* G00 holds the packed address of the routine with two locals, G01 the
\* largest positive word.
OpsGlobals == <<Pack(R2)>> \o [k \in 1 .. NumGlobals - 1 |-> 32767]
\* Object 1 is the parent of the other objects.
OpsParents == [k \in Objects |-> IF k = 1 THEN 0 ELSE 1]

\* Pairs of operands: small constants, large constants (-32768 and -1), the
\* stack with 0, the first local with G01.
OpsPairs ==
    {<<Small(7), Small(2)>>, <<Large(32768), Large(65535)>>,
     <<Variable(0), Small(0)>>, <<Variable(1), Variable(17)>>}
\* The return storages: the stack, the first local, G00.
OpsStores == {0, 1, 16}
\* Branch descriptors of one byte: return 0 when true, next instruction
\* when false, over one byte when true.
OpsBranches == {192, 66, 195}
\* The variables an operand names by number: the stack, the first local,
\* G00 and G01.
OpsVariables == {Small(0), Small(1), Small(16), Small(17)}
\* The words the random number generator may yield.
RandomWords == {0, 4, 65535}

\* A two-operand opcode that stores, and one that branches.
Storing(opcode) ==
    {Enc2(opcode, p[1], p[2]) \o <<st>> : p \in OpsPairs, st \in OpsStores}
Branching(opcode) ==
    {Enc2(opcode, p[1], p[2]) \o <<b>> : p \in OpsPairs, b \in OpsBranches}

je ==
    \E code \in Branching(1)
                \cup {EncVar(192, 1, <<Small(3), Small(4), Large(3)>>) \o <<b>>
                      : b \in OpsBranches} :
        \E got \in Decode(code, "je") :
            Apply(got.m, got.i, Exec_je(got.s, got.i))
jl ==
    \E code \in Branching(2) :
        \E got \in Decode(code, "jl") :
            Apply(got.m, got.i, Exec_compare(got.s, got.i))
jg ==
    \E code \in Branching(3) :
        \E got \in Decode(code, "jg") :
            Apply(got.m, got.i, Exec_compare(got.s, got.i))
dec_chk ==
    \E x \in OpsVariables, y \in {Small(0), Large(65535)}, b \in OpsBranches :
        \E got \in Decode(Enc2(4, x, y) \o <<b>>, "dec_chk") :
            Apply(got.m, got.i, Exec_chk(got.s, got.i, -1))
inc_chk ==
    \E x \in OpsVariables, y \in {Small(0), Large(65535)}, b \in OpsBranches :
        \E got \in Decode(Enc2(5, x, y) \o <<b>>, "inc_chk") :
            Apply(got.m, got.i, Exec_chk(got.s, got.i, 1))
test ==
    \E code \in Branching(7) :
        \E got \in Decode(code, "test") :
            Apply(got.m, got.i, Exec_compare(got.s, got.i))
or ==
    \E code \in Storing(8) :
        \E got \in Decode(code, "or") :
            Apply(got.m, got.i, Exec_binary(got.s, got.i))
and ==
    \E code \in Storing(9) :
        \E got \in Decode(code, "and") :
            Apply(got.m, got.i, Exec_binary(got.s, got.i))
op_store ==
    \E x \in OpsVariables, y \in {Small(9), Variable(0)} :
        \E got \in Decode(Enc2(13, x, y), "store") :
            Apply(got.m, got.i, Exec_store(got.s, got.i))
loadw ==
    \E x \in {Small(0), Large(65535)}, st \in OpsStores :
        \E got \in Decode(Enc2(15, x, Small(3)) \o <<st>>, "loadw") :
            Apply(got.m, got.i, Exec_loadw(got.s, got.i, 2))
loadb ==
    \E x \in {Small(0), Large(65535)}, st \in OpsStores :
        \E got \in Decode(Enc2(16, x, Small(3)) \o <<st>>, "loadb") :
            Apply(got.m, got.i, Exec_loadw(got.s, got.i, 1))
\* The objects have the properties 5 and 3; 4 is read from the defaults.
get_prop ==
    \E o \in {0, 1}, y \in {0, 3, 4, 5}, st \in OpsStores :
        \E got \in Decode(<<17, o, y, st>>, "get_prop") :
            Apply(got.m, got.i, Exec_get_prop(got.s, got.i))
get_prop_addr ==
    \E o \in {0, 1}, y \in {0, 3, 4, 5}, st \in OpsStores :
        \E got \in Decode(<<18, o, y, st>>, "get_prop_addr") :
            Apply(got.m, got.i, Exec_get_prop_addr(got.s, got.i))
get_next_prop ==
    \E o \in {0, 1}, y \in {0, 3, 4, 5}, st \in OpsStores :
        \E got \in Decode(<<19, o, y, st>>, "get_next_prop") :
            Apply(got.m, got.i, Exec_get_next_prop(got.s, got.i))
add ==
    \E code \in Storing(20) :
        \E got \in Decode(code, "add") :
            Apply(got.m, got.i, Exec_binary(got.s, got.i))
sub ==
    \E code \in Storing(21) :
        \E got \in Decode(code, "sub") :
            Apply(got.m, got.i, Exec_binary(got.s, got.i))
mul ==
    \E code \in Storing(22) :
        \E got \in Decode(code, "mul") :
            Apply(got.m, got.i, Exec_binary(got.s, got.i))
div ==
    \E code \in Storing(23) :
        \E got \in Decode(code, "div") :
            Apply(got.m, got.i, Exec_binary(got.s, got.i))
mod ==
    \E code \in Storing(24) :
        \E got \in Decode(code, "mod") :
            Apply(got.m, got.i, Exec_binary(got.s, got.i))

\* get_prop_len of 0, of the address of the data of a property, and of an
\* address beyond the image.
get_prop_len ==
    \E x \in {Small(0), Large(PropAddr(1) + 4), Large(65535)},
       st \in OpsStores :
        \E got \in Decode(Enc1(4, x) \o <<st>>, "get_prop_len") :
            Apply(got.m, got.i, Exec_get_prop_len(got.s, got.i))
inc ==
    \E x \in OpsVariables :
        \E got \in Decode(Enc1(5, x), "inc") :
            Apply(got.m, got.i, Exec_inc(got.s, got.i, 1))
dec ==
    \E x \in OpsVariables :
        \E got \in Decode(Enc1(6, x), "dec") :
            Apply(got.m, got.i, Exec_inc(got.s, got.i, -1))
\* The name of an object is a string; no string starts at 65535.
print_addr ==
    \E x \in {Large(PropAddr(1) + 1), Large(65535)} :
        \E got \in Decode(Enc1(7, x), "print_addr") :
            Apply(got.m, got.i, Exec_print(got.s, got.i))
print_obj ==
    \E o \in {0, 1} :
        \E got \in Decode(<<154, o>>, "print_obj") :
            Apply(got.m, got.i, Exec_print_obj(got.s, got.i))
\* jump to the next instruction, to itself, and over three bytes
op_jump ==
    \E x \in {Large(2), Large(65535), Small(5)} :
        \E got \in Decode(Enc1(12, x), "jump") :
            Apply(got.m, got.i, Exec_jump(got.s, got.i))
print_paddr ==
    \E x \in {Small(Pack(PropAddr(2) + 1)), Large(65535)} :
        \E got \in Decode(Enc1(13, x), "print_paddr") :
            Apply(got.m, got.i, Exec_print(got.s, got.i))
load ==
    \E x \in OpsVariables, st \in OpsStores :
        \E got \in Decode(Enc1(14, x) \o <<st>>, "load") :
            Apply(got.m, got.i, Exec_load(got.s, got.i))
not ==
    \E x \in {Small(0), Large(65535), Variable(0), Variable(1)},
       st \in OpsStores :
        \E got \in Decode(Enc1(15, x) \o <<st>>, "not") :
            Apply(got.m, got.i, Exec_not(got.s, got.i))

op_print ==
    \E got \in Decode(<<178, 148, 165>>, "print") :
        Apply(got.m, got.i, Out("Continue", got.s))
quit ==
    \E got \in Decode(<<186>>, "quit") :
        Apply(got.m, got.i, Out("CleanExit", got.s))
new_line ==
    \E got \in Decode(<<187>>, "new_line") :
        Apply(got.m, got.i, Out("Continue", got.s))
verify ==
    \E b \in OpsBranches :
        \E got \in Decode(<<189, b>>, "verify") :
            Apply(got.m, got.i, jump(got.s, got.i, TRUE))

\* The arrays storew and storeb write to: the property defaults, the
\* dictionary (at and above header.dynamic_end) and the end of the address
\* space.
StoreArrays == {Small(64), Large(DictBase), Large(65535)}
storew ==
    \E x \in StoreArrays :
        \E got \in Decode(EncVar(224, 1, <<x, Small(1), Large(4660)>>),
                          "storew") :
            Apply(got.m, got.i, Exec_storew(got.s, got.i, 2))
storeb ==
    \E x \in StoreArrays :
        \E got \in Decode(EncVar(224, 2, <<x, Small(1), Large(4660)>>),
                          "storeb") :
            Apply(got.m, got.i, Exec_storew(got.s, got.i, 1))
put_prop ==
    \E o \in {0, 1}, y \in {0, 3, 4, 5} :
        \E got \in Decode(EncVar(224, 3, <<Small(o), Small(y),
                                         Large(4660)>>), "put_prop") :
            Apply(got.m, got.i, Exec_put_prop(got.s, got.i))
\* sread when the port has no complete line (poll_input is false)
sread ==
    \E got \in Decode(EncVar(224, 4, <<Small(64), Small(72)>>), "sread") :
        Apply(got.m, got.i, Exec_sread(got.s, got.i))
print_char ==
    \E x \in {65, 200} :
        \E got \in Decode(EncVar(224, 5, <<Small(x)>>), "print_char") :
            Apply(got.m, got.i, Exec_print(got.s, got.i))
print_num ==
    \E x \in {Small(7), Large(65535)} :
        \E got \in Decode(EncVar(224, 6, <<x>>), "print_num") :
            Apply(got.m, got.i, Exec_print(got.s, got.i))
random ==
    \E r \in {Small(0), Small(3), Large(65535), Variable(0)},
       st \in OpsStores, x \in RandomWords :
        \E got \in Decode(EncVar(224, 7, <<r>>) \o <<st>>, "random") :
            Apply(got.m, got.i, Exec_random([got.s EXCEPT !.rnd = x], got.i))
pull ==
    \E x \in OpsVariables :
        \E got \in Decode(EncVar(224, 9, <<x>>), "pull") :
            Apply(got.m, got.i, Exec_pull(got.s, got.i))

\* The opcodes Machine::execute has no arm for, those that store a result
\* (call_1s, call_2s) and those that branch (save, restore, piracy)
\* included.
Unimplemented ==
    {<<<<180>>, "no">>, <<<<181, 192>>, "save">>, <<<<182, 192>>, "restore">>,
     <<<<183>>, "restart">>, <<<<188>>, "show_status">>,
     <<<<190>>, "extended">>, <<<<191, 192>>, "piracy">>,
     <<<<152, 0, 16>>, "call_1s">>, <<<<0, 0, 0>>, "none">>,
     <<<<25, 0, 0, 16>>, "call_2s">>, <<<<26, 0, 0>>, "call_2n">>,
     <<<<29, 0, 0>>, "unknown">>, <<<<234, 127, 0>>, "split_window">>}
unimplemented ==
    \E f \in Unimplemented :
        \E got \in Decode(f[1], f[2]) :
            Apply(got.m, got.i, Out("Break", got.s))

InitOps ==
    MachineNew(Image(ImageBytes(OpsParents, TRUE, AttrOf, OpsGlobals,
                                CallCode)),
               RoutineHeaders)

NextOps ==
    \/ OpsFit /\ call_entry
    \/ OpsFit /\ op_ret
    \/ OpsFit /\ rtrue
    \/ OpsFit /\ rfalse
    \/ OpsFit /\ ret_popped
    \/ OpsFit /\ print_ret
    \/ OpsFit /\ jz
    \/ OpsFit /\ push
    \/ OpsFit /\ pop
    \/ OpsFit /\ insert_obj
    \/ OpsFit /\ remove_obj
    \/ OpsFit /\ get_parent
    \/ OpsFit /\ get_child
    \/ OpsFit /\ get_sibling
    \/ OpsFit /\ jin
    \/ OpsFit /\ test_attr
    \/ OpsFit /\ set_attr
    \/ OpsFit /\ clear_attr
    \/ OpsFit /\ je
    \/ OpsFit /\ jl
    \/ OpsFit /\ jg
    \/ OpsFit /\ dec_chk
    \/ OpsFit /\ inc_chk
    \/ OpsFit /\ test
    \/ OpsFit /\ or
    \/ OpsFit /\ and
    \/ OpsFit /\ op_store
    \/ OpsFit /\ loadw
    \/ OpsFit /\ loadb
    \/ OpsFit /\ get_prop
    \/ OpsFit /\ get_prop_addr
    \/ OpsFit /\ get_next_prop
    \/ OpsFit /\ add
    \/ OpsFit /\ sub
    \/ OpsFit /\ mul
    \/ OpsFit /\ div
    \/ OpsFit /\ mod
    \/ OpsFit /\ get_prop_len
    \/ OpsFit /\ inc
    \/ OpsFit /\ dec
    \/ OpsFit /\ print_addr
    \/ OpsFit /\ print_obj
    \/ OpsFit /\ op_jump
    \/ OpsFit /\ print_paddr
    \/ OpsFit /\ load
    \/ OpsFit /\ not
    \/ OpsFit /\ op_print
    \/ OpsFit /\ quit
    \/ OpsFit /\ new_line
    \/ OpsFit /\ verify
    \/ OpsFit /\ storew
    \/ OpsFit /\ storeb
    \/ OpsFit /\ put_prop
    \/ OpsFit /\ sread
    \/ OpsFit /\ print_char
    \/ OpsFit /\ print_num
    \/ OpsFit /\ random
    \/ OpsFit /\ pull
    \/ OpsFit /\ unimplemented

SpecOps == InitOps /\ [][NextOps]_vars

\* The instruction a step executes and its operands as Machine::read_var
\* reads them in the state the step starts in: [ok, vals, s].
StepInstr == last'.instr
StepName == Name(StepInstr)
StepArgs == read_all(Cur(mem), StepInstr.args, 1)

\* A step that enters a routine: a call whose operands can be read and whose
\* packed address is that of a routine of the story file.
EntersRoutine ==
    /\ StepName = "call"
    /\ StepArgs.ok
    /\ 2 * StepArgs.vals[1] \in {R0, R2}

\* A step that calls the packed address 0.
CallsZero ==
    /\ StepName = "call"
    /\ StepArgs.ok
    /\ StepArgs.vals[1] = 0

\* A step that starts a return from the current routine: ret, rtrue,
\* rfalse, ret_popped or print_ret whose operand can be read, or a taken
\* branch with offset 0 or 1, the frame stack not being empty.
StartsReturn ==
    /\ frames # <<>>
    /\ StepArgs.ok
    /\ \/ StepName \in {"ret", "rtrue", "rfalse", "print_ret"}
       \/ StepName = "ret_popped" /\ stack # <<>>
       \/ /\ StepName = "jz"
          /\ StepInstr.jump_offset.v \in {0, 1}
          /\ (StepArgs.vals[1] = 0) = StepInstr.compare.v

\* The depth of the stack when Machine::ret is entered.
DepthAtReturn ==
    IF StepName = "ret_popped" THEN Len(stack) - 1 ELSE Len(StepArgs.s.stack)

\* The words a write to the storage st adds to the stack.
Pushes(st) == IF st = RetVariable(0) THEN 1 ELSE 0

\* C1: for every call to a non-zero routine address and its matching return
\* (ret, rtrue, rfalse, ret_popped, print_ret or a taken branch with offset
\* 0 or 1), after the return the evaluation stack is as deep as it was
\* immediately before the call instruction executed and ip is the address
\* of the call instruction plus its encoded length, for every kind of call
\* operand and every return storage, variable 0 included.
C1_ReturnRestoresCaller ==
    [][(StartsReturn /\ frames' = Front(frames))
        => /\ Len(stack') = Top(calls).depth
           /\ ip' = Top(calls).ip + Top(calls).length]_vars

\* C1, its second conjunct: for every call to a non-zero routine address
\* and its matching return, after the return ip is the address of the call
\* instruction plus its encoded length.
C1_ReturnResumesAfterCall ==
    [][(StartsReturn /\ frames' = Front(frames))
        => ip' = Top(calls).ip + Top(calls).length]_vars

\* C2: every return executed with a non-empty frame stack terminates, pops
\* the top frame and leaves the evaluation stack at exactly
\* frame.stack_start words before the return value is written, whether the
\* stack was deeper than, as deep as or shallower than stack_start when
\* the return started.
C2_ReturnTerminatesAndTruncates ==
    [][StartsReturn
        => /\ mstate' # "Hang"
           /\ frames' = Front(frames)
           /\ Len(stack') = Top(frames).stack_start
                                + Pushes(Top(frames).return_storage)]_vars

\* The routine a step enters, its number of locals and the depth of the
\* stack once the operands of the call are read.
EnteredAddr == 2 * StepArgs.vals[1]
EnteredLocals == mem'[EnteredAddr]
EnteredStart == Len(StepArgs.s.stack)

\* C3: on entry to a routine at a non-zero address with num_locals locals,
\* a new frame is pushed with stack_start equal to the stack depth after
\* the operands of the call were read, the stack holds exactly num_locals
\* words above stack_start, local i (0-based) is the i-th supplied argument
\* when one was supplied and otherwise the 16-bit default word at
\* addr + 1 + 2*i, arguments beyond num_locals are ignored, and ip is
\* addr + 1 + 2*num_locals.
C3_RoutineEntry ==
    [][EntersRoutine
        => /\ Len(frames') = Len(frames) + 1
           /\ Front(frames') = frames
           /\ Top(frames').stack_start = EnteredStart
           /\ Top(frames').num_locals = EnteredLocals
           /\ Len(stack') = EnteredStart + EnteredLocals
           /\ SubSeq(stack', 1, EnteredStart) = StepArgs.s.stack
           /\ \A k \in 0 .. EnteredLocals - 1 :
                  stack'[EnteredStart + k + 1] =
                      IF k + 2 <= Len(StepArgs.vals) THEN StepArgs.vals[k + 2]
                      ELSE 256 * mem'[EnteredAddr + 1 + 2 * k]
                           + mem'[EnteredAddr + 2 + 2 * k]
           /\ ip' = EnteredAddr + 1 + 2 * EnteredLocals]_vars

\* The first half of C3 alone: the frame and the locals of the routine
\* entered.
C3_EntryFrameAndLocals ==
    [][EntersRoutine
        => /\ Len(frames') = Len(frames) + 1
           /\ Front(frames') = frames
           /\ Top(frames').stack_start = EnteredStart
           /\ Top(frames').num_locals = EnteredLocals
           /\ Len(stack') = EnteredStart + EnteredLocals
           /\ SubSeq(stack', 1, EnteredStart) = StepArgs.s.stack
           /\ \A k \in 0 .. EnteredLocals - 1 :
                  stack'[EnteredStart + k + 1] =
                      IF k + 2 <= Len(StepArgs.vals) THEN StepArgs.vals[k + 2]
                      ELSE 256 * mem'[EnteredAddr + 1 + 2 * k]
                           + mem'[EnteredAddr + 2 + 2 * k]]_vars

\* C4: a call whose packed routine address is 0 pushes no frame, writes 0
\* into the return storage of the call and sets ip to the address
\* immediately after the call instruction.
C4_CallZero ==
    [][CallsZero
        => /\ mstate' = "Continue"
           /\ frames' = frames
           /\ last'.rw = <<[storage |-> StepInstr.ret, val |-> 0,
                            stored |-> TRUE, of |-> "instruction"]>>
           /\ read_var([Cur(mem') EXCEPT !.stack = stack', !.frames = frames'],
                       Indirect(StepInstr.ret.v)).val = 0
           /\ Len(stack') = Len(StepArgs.s.stack) + Pushes(StepInstr.ret)
           /\ ip' = ip + StepInstr.length]_vars

\* A call of address 0 from inside a routine has stored 0 in a local.
C4_Witness ==
    /\ LastName = "call"
    /\ Len(frames) = 1
    /\ last.instr.ret = RetVariable(1)
    /\ last.rw = <<[storage |-> RetVariable(1), val |-> 0, stored |-> TRUE,
                    of |-> "instruction"]>>
    /\ ip = last.instr.offset + last.instr.length

\* The opcodes of the stores-a-result sets: Op2 0x08, 0x09, 0x0F..0x19;
\* Op1 0x01..0x04, 0x08, 0x0E, 0x0F; Var 0x00, 0x07.
StoreSets(i) ==
    \/ i.optype = "Op2" /\ i.opcode \in {8, 9} \cup (15 .. 25)
    \/ i.optype = "Op1" /\ i.opcode \in {1, 2, 3, 4, 8, 14, 15}
    \/ i.optype = "Var" /\ i.opcode \in {0, 7}

\* The writes of a step to a return storage: to the instruction's own
\* ("instruction"), and to that of the call the step returns to ("frame").
WritesOf(of) == SelectSeq(last'.rw, LAMBDA e : e.of = of)

\* The step wrote one word, e.val, to the return storage st, and when
\* frames are the frames the write was made in, the variable holds it.
OneWord(w, st, in) ==
    /\ Len(w) = 1
    /\ w[1].storage = st
    /\ st.tag = "Variable"
    /\ w[1].stored
    /\ w[1].val \in 0 .. 65535
    /\ frames' = in
          => read_var([Cur(mem') EXCEPT !.stack = stack', !.frames = frames'],
                      Indirect(st.v)).val = w[1].val

\* C5: executing an opcode of the stores-a-result sets that completes
\* without Break writes exactly one 16-bit word to the return storage of
\* the instruction (a call that enters a routine writes it at the matching
\* return, a call of address 0 immediately); executing an opcode outside
\* those sets never writes to the return storage of the instruction.
C5_StoresExactlyOneWord ==
    [][mstate' = "Continue"
        => /\ IF Len(frames') = Len(frames) + 1
              THEN /\ StepName = "call"
                   /\ WritesOf("instruction") = <<>>
                   /\ Top(frames').return_storage = StepInstr.ret
                   /\ StepInstr.ret.tag = "Variable"
              ELSE IF StoreSets(StepInstr)
              THEN OneWord(WritesOf("instruction"), StepInstr.ret, frames)
              ELSE WritesOf("instruction") = <<>>
           /\ IF Len(frames') < Len(frames)
              THEN OneWord(WritesOf("frame"), Top(frames).return_storage,
                           Front(frames))
              ELSE WritesOf("frame") = <<>>]_vars

\* get_child in a routine has stored the child in G00 and, the child being
\* an object, returned 1 to the storage of the call.
C5_Witness ==
    /\ mstate = "Continue"
    /\ LastName = "get_child"
    /\ frames = <<>>
    /\ Len(last.rw) = 2
    /\ last.rw[1].of = "instruction"
    /\ last.rw[1].storage = RetVariable(16)
    /\ last.rw[2] = [storage |-> RetVariable(0), val |-> 1, stored |-> TRUE,
                     of |-> "frame"]
    /\ stack = <<1>>

\* ------------------------------------------------------------------------
\* Machine::step on a finished machine
\* ------------------------------------------------------------------------

\* The calls of Machine::step on a finished machine the model counts.
MaxIdle == 2

\* Machine::step when finished is set: the test at its head fails, nothing
\* is decoded and nothing is executed.  The front end calls step again on
\* every frame (update), whatever the machine's state.
step_finished ==
    /\ finished
    /\ idle < MaxIdle
    /\ idle' = idle + 1
    /\ UNCHANGED <<mem, stack, frames, ip, finished, header, mstate,
                   overflow_checks, known, last, calls, obj0, program, io,
                   dictionary>>

NextHalt ==
    \/ OpsFit /\ call_entry
    \/ OpsFit /\ push
    \/ OpsFit /\ new_line
    \/ OpsFit /\ sread
    \/ OpsFit /\ div
    \/ OpsFit /\ get_parent
    \/ OpsFit /\ unimplemented
    \/ OpsFit /\ quit
    \/ step_finished

SpecHalt == InitOps /\ [][NextHalt]_vars

\* C11: an instruction that ends in Break or in CleanExit sets finished;
\* finished once set stays set, and a step of a finished machine leaves ip,
\* the memory image, the evaluation stack and the frame stack as they were
\* and executes no instruction.
C11_FinishedIsFinal ==
    [][/\ mstate' \in {"Break", "CleanExit"} => finished'
       /\ finished => /\ finished'
                      /\ UNCHANGED <<ip, mem, stack, frames>>
                      /\ UNCHANGED <<last, program, mstate>>]_vars

\* step has been called twice after quit ended the run.
C11_Witness ==
    /\ finished
    /\ mstate = "CleanExit"
    /\ LastName = "quit"
    /\ idle = MaxIdle

\* ------------------------------------------------------------------------
\* div and mod
\* ------------------------------------------------------------------------

\* The dividends and the divisors of the story file's div and mod, as large
\* constants: 0, 1, 7, -7, the largest and the smallest i16 and -1 over
\* 0, 1, 2, 3, -1, -3, the smallest and the largest i16.
Dividends == {0, 1, 7, 65529, 32767, 32768, 65535}
Divisors == {0, 1, 2, 3, 65535, 65533, 32768, 32767}
\* and operands read from variables: the dividend popped from the stack,
\* the divisor popped from the stack.
ArithPairs ==
    {<<Large(x), Large(y)>> : x \in Dividends, y \in Divisors}
        \cup {<<Variable(0), Small(0)>>, <<Variable(17), Variable(0)>>}
Dividing(opcode) ==
    {Enc2(opcode, p[1], p[2]) \o <<st>> : p \in ArithPairs, st \in OpsStores}

op_div ==
    \E code \in Dividing(23) :
        \E got \in Decode(code, "div") :
            Apply(got.m, got.i, Exec_binary(got.s, got.i))
op_mod ==
    \E code \in Dividing(24) :
        \E got \in Decode(code, "mod") :
            Apply(got.m, got.i, Exec_binary(got.s, got.i))

NextArith ==
    \/ OpsFit /\ call_entry
    \/ OpsFit /\ push
    \/ OpsFit /\ op_div
    \/ OpsFit /\ op_mod

SpecArith == InitOps /\ [][NextArith]_vars

\* A step that executes div or mod and reads both its operands.
Divides ==
    /\ StepName \in {"div", "mod"}
    /\ StepArgs.ok
    /\ Len(StepArgs.vals) = 2
Dividend == AsI16(StepArgs.vals[1])
Divisor == AsI16(StepArgs.vals[2])

\* C12: div and mod with divisor 0 end in Break, write nothing to the return
\* storage (no write_var, and the image, the frames and the stack below the
\* operands popped are what they were) and leave ip at the instruction.
C12_DivideByZero ==
    [][(Divides /\ Divisor = 0)
       => /\ mstate' = "Break"
          /\ finished'
          /\ last'.rw = <<>>
          /\ ip' = ip
          /\ mem' = ImageBefore
          /\ frames' = frames
          /\ stack' = StepArgs.s.stack]_vars

\* div, with its dividend popped from the stack and the divisor 0, has
\* ended the run at the second instruction of the story file.
C12_Witness ==
    /\ mstate = "Break"
    /\ LastName = "div"
    /\ last.instr.args = <<Variable(0), Small(0)>>
    /\ last.instr.ret = RetVariable(0)
    /\ stack = <<>>
    /\ Cardinality(program) = 2
    /\ ip = last.instr.offset

\* The step stored one word as the result of the instruction.
StoredResult ==
    /\ mstate' = "Continue"
    /\ OneWord(WritesOf("instruction"), StepInstr.ret, frames)
StoredWord == AsI16(WritesOf("instruction")[1].val)

\* r is a remainder of x by y: smaller than y in magnitude, of the sign of
\* x or 0.
IsRemainder(x, y, r) ==
    /\ Abs(r) < Abs(y)
    /\ r = 0 \/ (r < 0) = (x < 0)

\* div has stored a q such that x - q*y, in 16-bit arithmetic, is a
\* remainder of x by y; mod has stored a remainder r of x by y such that
\* x - r is a multiple of y.
DivModStores ==
    /\ StoredResult
    /\ StepName = "div"
          => IsRemainder(Dividend, Divisor,
                         AsI16(AsU16(Dividend - StoredWord * Divisor)))
    /\ StepName = "mod"
          => /\ IsRemainder(Dividend, Divisor, StoredWord)
             /\ (Dividend - StoredWord) % Abs(Divisor) = 0

\* C13: for every pair of signed 16-bit operands x and y, y not 0, div
\* stores a quotient and mod a remainder with x = q*y + r in 16-bit
\* arithmetic and r of the sign of x, -32768 by -1 included.
C13_DivModIdentity ==
    [][(Divides /\ Divisor # 0) => DivModStores]_vars

\* The same for every pair but -32768 by -1.
C13_ExceptOverflow ==
    [][(Divides /\ Divisor # 0 /\ ~(Dividend = -32768 /\ Divisor = -1))
       => DivModStores]_vars

\* -32768 by -1 never stores: the division and the remainder of the
\* smallest i16 by -1 panic in every build.
C13_OverflowPanics ==
    [][(Divides /\ Dividend = -32768 /\ Divisor = -1)
       => mstate' = "Panic" /\ last'.rw = <<>>]_vars

\* ------------------------------------------------------------------------
\* Writes to the image
\* ------------------------------------------------------------------------

\* The bytes of the image at and above header.dynamic_end that a step
\* changed.
StaticWritten ==
    {a \in DOMAIN mem : a >= header.dynamic_end /\ mem'[a] # ImageBefore[a]}

\* C14: no opcode modifies a byte of the image at an address greater than
\* or equal to header.dynamic_end.
C14_StaticMemoryUnchanged ==
    [][StaticWritten = {}]_vars

\* The same for every opcode but storew and storeb.
C14_ExceptStores ==
    [][StepName \notin {"storew", "storeb"} => StaticWritten = {}]_vars

\* ------------------------------------------------------------------------
\* Branches
\* ------------------------------------------------------------------------

\* The branch descriptors of an instruction of n bytes before them. One
\* byte: return 0 and return 1 when true, return 0 when false, the next
\* instruction when false, over one byte when true. Two bytes: over five
\* bytes when true and when false, back to the instruction itself when
\* true and when false (offset -n), back to two bytes before it when true.
Descriptors(n) ==
    {<<192>>, <<193>>, <<64>>, <<66>>, <<195>>,
     <<128, 7>>, <<0, 7>>,
     <<159, 256 - n>>, <<31, 256 - n>>, <<159, 254 - n>>}

branch_jz ==
    \E x \in {Small(0), Small(5), Variable(0), Variable(1)},
       b \in Descriptors(2) :
        \E got \in Decode(Enc1(0, x) \o b, "jz") :
            Apply(got.m, got.i, Exec_jz(got.s, got.i))
branch_je ==
    \E p \in {<<Small(3), Small(3)>>, <<Small(3), Small(4)>>,
               <<Variable(0), Small(0)>>, <<Variable(17), Large(32767)>>} :
      \E b \in Descriptors(Len(Enc2(1, p[1], p[2]))) :
        \E got \in Decode(Enc2(1, p[1], p[2]) \o b, "je") :
            Apply(got.m, got.i, Exec_je(got.s, got.i))
branch_verify ==
    \E b \in Descriptors(1) :
        \E got \in Decode(<<189>> \o b, "verify") :
            Apply(got.m, got.i, jump(got.s, got.i, TRUE))

NextBranch ==
    \/ OpsFit /\ call_entry
    \/ OpsFit /\ push
    \/ OpsFit /\ branch_jz
    \/ OpsFit /\ branch_je
    \/ OpsFit /\ branch_verify

SpecBranch == InitOps /\ [][NextBranch]_vars

\* A step that executes one of the branches and reads its operands; inside
\* a routine, the operands have left the words of the caller on the stack.
BranchStep ==
    /\ StepName \in {"jz", "je", "verify"}
    /\ StepArgs.ok
    /\ frames # <<>> => Len(StepArgs.s.stack) >= Top(frames).stack_start
\* The runtime condition of the branch.
Condition ==
    CASE StepName = "jz" -> StepArgs.vals[1] = 0
      [] StepName = "je" -> StepArgs.vals[1] = StepArgs.vals[2]
      [] OTHER -> TRUE
BranchTaken == Condition = StepInstr.compare.v
BranchA == StepInstr.offset
BranchL == StepInstr.length
BranchK == StepInstr.jump_offset.v
\* The step has returned val from the current routine.
Returned(val) ==
    /\ mstate' = "Continue"
    /\ frames' = Front(frames)
    /\ Len(WritesOf("frame")) = 1
    /\ WritesOf("frame")[1].val = val
\* What the branch does: a return for the offsets 0 and 1 (in a routine),
\* ip = A + L + k - 2 for every other offset, ip = A + L when not taken.
Branched ==
    IF BranchTaken
    THEN IF BranchK \in {0, 1} THEN frames # <<>> => Returned(BranchK)
         ELSE mstate' = "Continue" /\ ip' = BranchA + BranchL + BranchK - 2
    ELSE mstate' = "Continue" /\ ip' = BranchA + BranchL
\* The branch is taken and its target is the instruction itself.
TargetsSelf ==
    BranchTaken /\ BranchK \notin {0, 1} /\ BranchK = 2 - BranchL

\* C15: a branch whose condition equals its polarity returns 0 for the
\* offset 0, returns 1 for the offset 1 and sets ip to A + L + k - 2 for
\* every other offset k, also when that is A; a branch whose condition
\* differs from its polarity sets ip to A + L.
C15_Branch ==
    [][BranchStep => Branched]_vars

\* The same for every branch but the one to the instruction itself.
C15_ExceptSelf ==
    [][(BranchStep /\ ~TargetsSelf) => Branched]_vars

\* A taken branch to the instruction itself leaves ip after it.
C15_SelfFallsThrough ==
    [][(BranchStep /\ TargetsSelf)
       => mstate' = "Continue" /\ ip' = BranchA + BranchL]_vars

\* ------------------------------------------------------------------------
\* Machine::decode on the instructions of a story file
\* ------------------------------------------------------------------------

\* The bytes of the code of the story files decoded.
DecodeLen == 12

\* The bytes that follow a first byte of the short and of the long form: a
\* large constant or two small ones, then a store byte and a branch
\* descriptor of two bytes, or a descriptor of one byte.
DecodeTails == {<<1, 2, 3, 4, 200, 6>>, <<1, 2, 3, 196, 5, 6>>}
\* The second byte of a branch descriptor.
BranchSeconds == {0, 1, 127, 128, 254, 255}
\* The first bytes of the variable form decoded with every operand-type
\* byte: je, add, call, storew, sread, random.
VarFirsts == {193, 212, 224, 225, 228, 231}
\* The bytes that follow the operand-type byte.
VarTail == <<17, 34, 51, 68, 85, 102, 119, 136, 153>>
\* Packed strings of one and of two words.
PackedStrings ==
    {<<17, 170, 156, 165>>, <<53, 81, 198, 133>>, <<148, 165>>,
     <<0, 13, 148, 165>>}

DecodeInputs ==
    {<<op>> \o t : op \in (0 .. 191) \ {178, 179}, t \in DecodeTails}
    \cup {<<144, 0, b1, b2>> : b1 \in 0 .. 255, b2 \in BranchSeconds}
    \cup {<<op, t>> \o VarTail : op \in VarFirsts, t \in 0 .. 255}
    \cup {<<op>> \o z : op \in {178, 179}, z \in PackedStrings}

Pad(code) == code \o [k \in 1 .. DecodeLen - Len(code) |-> 0]

InitDecode ==
    \E code \in DecodeInputs :
        MachineNew(Image(ImageBytes(OpsParents, TRUE, AttrOf, OpsGlobals,
                                    Pad(code))),
                   CodeBase .. CodeBase + DecodeLen - 1)

\* Machine::decode: the instruction at ip.
decode ==
    /\ ~finished
    /\ last = NoLast
    /\ InstructionNew(mem, ip).ok
    /\ last' = [instr |-> InstructionNew(mem, ip), rw |-> <<>>]
    /\ UNCHANGED <<mem, stack, frames, ip, finished, header, mstate,
                   overflow_checks, known, calls, obj0, program, idle, io,
                   dictionary>>

NextDecode == decode

SpecDecode == InitDecode /\ [][NextDecode]_vars

\* The instruction decoded and the bytes it was decoded from.
Decoded == last.instr.ok
CodeByte(k) == mem[last.instr.offset + k]

\* The layout of the instruction decoded, from its first byte, its operand
\* list and the sets of the opcodes that store and that branch: the
\* operand-type byte of the variable form, the bytes of the operands, the
\* store byte, the branch descriptor, the packed string.
VarForm == CodeByte(0) >= 192
PayloadBytes ==
    Len(Flatten([k \in DOMAIN last.instr.args |-> ArgBytes(last.instr.args[k])]))
\* Op2 0x01..0x07, 0x0A; Op1 0x00..0x02; Op0 0x05, 0x06, 0x0D, 0x0F.
BranchSets(i) ==
    \/ i.optype = "Op2" /\ i.opcode \in (1 .. 7) \cup {10}
    \/ i.optype = "Op1" /\ i.opcode \in 0 .. 2
    \/ i.optype = "Op0" /\ i.opcode \in {5, 6, 13, 15}
Prints(i) == i.optype = "Op0" /\ i.opcode \in {2, 3}
StoreLen == IF StoreSets(last.instr) THEN 1 ELSE 0
StoreAt == 1 + (IF VarForm THEN 1 ELSE 0) + PayloadBytes
BranchLenAt(at) ==
    IF ~BranchSets(last.instr) THEN 0
    ELSE IF (CodeByte(at) \div 64) % 2 = 1 THEN 1 ELSE 2
BranchAt == StoreAt + StoreLen
StringAt == BranchAt + BranchLenAt(BranchAt)
\* The bytes of the packed string at a: its words up to the first one with
\* the top bit set.
RECURSIVE PackedLen(_)
PackedLen(a) == IF mem[a] >= 128 THEN 2 ELSE 2 + PackedLen(a + 2)

\* The 13 bits a branch descriptor of two bytes combines.
RawOffset == (CodeByte(BranchAt) % 32) * 256 + CodeByte(BranchAt + 1)
TwoByteBranch ==
    Decoded /\ BranchSets(last.instr) /\ BranchLenAt(BranchAt) = 2
Polarity == CodeByte(BranchAt) >= 128

\* C16: the offset of a branch descriptor of two bytes is the raw combined
\* value for every raw value in 0 .. 0x1FFF, never negative; that of a
\* descriptor of one byte is its low 6 bits; the polarity is bit 0x80 of
\* the first byte.
C16_BranchOffset ==
    (Decoded /\ BranchSets(last.instr))
    => /\ last.instr.compare = Some(Polarity)
       /\ last.instr.jump_offset.some
       /\ last.instr.jump_offset.v =
              IF TwoByteBranch THEN RawOffset ELSE CodeByte(BranchAt) % 64

\* One byte, polarity, and the raw values up to 0x0FFF are as C16 says.
C16_LowRaw ==
    (Decoded /\ BranchSets(last.instr)
        /\ (TwoByteBranch => RawOffset <= 4095))
    => /\ last.instr.compare = Some(Polarity)
       /\ last.instr.jump_offset =
              Some(IF TwoByteBranch THEN RawOffset ELSE CodeByte(BranchAt) % 64)

\* The raw values from 0x1000 on decode to raw - 0x2000.
C16_HighRaw ==
    (TwoByteBranch /\ RawOffset > 4095)
    => /\ last.instr.compare = Some(Polarity)
       /\ last.instr.jump_offset = Some(RawOffset - 8192)

\* C17: the length of a decoded instruction is the opcode byte, the
\* operand-type byte in variable form, 2 bytes per large and 1 per small or
\* variable operand, the store byte of an opcode that stores, the 1 or 2
\* branch bytes of one that branches and the bytes of the string of print
\* and print_ret; the store byte is the first byte after the operands, the
\* branch descriptor follows it and the string follows that.
C17_Length ==
    Decoded
    => /\ last.instr.length =
              StringAt + (IF Prints(last.instr)
                          THEN PackedLen(last.instr.offset + StringAt)
                          ELSE 0)
       /\ last.instr.ret = IF StoreSets(last.instr)
                           THEN RetVariable(CodeByte(StoreAt))
                           ELSE RetOmitted
       /\ last.instr.compare = IF BranchSets(last.instr)
                               THEN Some(Polarity) ELSE None
       /\ last.instr.jump_offset.some = BranchSets(last.instr)
       /\ last.instr.string.some = Prints(last.instr)
       /\ Prints(last.instr)
             => /\ last.instr.string.length
                      = PackedLen(last.instr.offset + StringAt)
                /\ last.instr.string.contents
                      = ZStringNew(mem, last.instr.offset + StringAt).contents

\* get_sibling with a large constant, a store byte and a branch descriptor
\* of two bytes has been decoded: 1 + 2 + 1 + 2 bytes.
C17_Witness ==
    /\ Decoded
    /\ Name(last.instr) = "get_sibling"
    /\ last.instr.args = <<Large(258)>>
    /\ last.instr.ret = RetVariable(3)
    /\ last.instr.jump_offset = Some(1224)
    /\ last.instr.length = 6

\* The four operand-type fields of the variable form, the first high, and
\* the fields before the first Omitted one.
Field(k) == (CodeByte(1) \div Pow2((4 - k) * 2)) % 4
Given == Cardinality({k \in 1 .. 4 : \A j \in 1 .. k : Field(j) # 3})
GivenBytes == Given + Cardinality({k \in 1 .. Given : Field(k) = 0})
FieldTag(k) ==
    IF Field(k) = 0 THEN "Large" ELSE IF Field(k) = 1 THEN "Small"
    ELSE "Variable"
\* The operands and the length when decoding stops at the first Omitted
\* field.
StopsAtOmitted ==
    /\ Len(last.instr.args) = Given
    /\ \A k \in 1 .. Given : last.instr.args[k].tag = FieldTag(k)
    /\ last.instr.length =
           2 + GivenBytes + StoreLen
             + BranchLenAt(2 + GivenBytes + StoreLen)

\* C18: in variable form no field after the first Omitted one contributes
\* an operand or bytes to the length, whatever the operand-type byte.
C18_StopsAtOmitted ==
    (Decoded /\ VarForm) => StopsAtOmitted

\* The same for the operand-type bytes whose Omitted fields are trailing.
C18_TrailingOmitted ==
    (Decoded /\ VarForm /\ \A k \in 1 .. 4 : k > Given => Field(k) = 3)
    => StopsAtOmitted

\* The bytes at the instruction decoded are code.
CodeIs(code) == \A k \in 1 .. Len(code) : CodeByte(k - 1) = code[k]

\* C19 as the claim states it: the bytes 54 01 02 03 decode to an Op2 add
\* with the small constants 1 and 2, the return storage variable 3 and
\* the length 4.
C19_TwoSmallOperands ==
    (Decoded /\ CodeIs(<<84, 1, 2, 3>>))
    => /\ last.instr.optype = "Op2"
       /\ Name(last.instr) = "add"
       /\ last.instr.args = <<Small(1), Small(2)>>
       /\ last.instr.ret = RetVariable(3)
       /\ last.instr.length = 4

\* C19: the bytes 54 01 02 03 decode to an Op2 add (opcode 0x14) whose
\* first operand is the variable 1 (bit 0x40 of the first byte is set) and
\* whose second operand is the small constant 2, with the return storage
\* variable 3 and the length 4.
C19_AddDecoding ==
    (Decoded /\ CodeIs(<<84, 1, 2, 3>>))
    => /\ last.instr.optype = "Op2"
       /\ last.instr.opcode = 20
       /\ Name(last.instr) = "add"
       /\ last.instr.args = <<Variable(1), Small(2)>>
       /\ last.instr.ret = RetVariable(3)
       /\ last.instr.length = 4
       /\ ~last.instr.jump_offset.some
       /\ ~last.instr.string.some

\* The bytes 54 01 02 03 have been decoded.
C19_Witness ==
    /\ Decoded
    /\ CodeIs(<<84, 1, 2, 3>>)
    /\ Name(last.instr) = "add"
    /\ last.instr.offset = ip

\* The string of a print whose packed text is the words 0x11AA, 0x9CA5.
Is11AA == Decoded /\ CodeIs(<<178, 17, 170, 156, 165>>)

\* C20 as the claim states it: the words 0x11AA, 0x9CA5 decode to "hello"
\* and 4 bytes.
C20_Hello ==
    Is11AA
    => /\ last.instr.string.contents = <<104, 101, 108, 108, 111>>
       /\ last.instr.string.length = 4

\* C20: the words 0x11AA, 0x9CA5 hold the codes 4, 13, 10, 7, 5, 5 and
\* decode to "Heb" and 4 bytes.
C20_Heb ==
    Is11AA
    => /\ last.instr.string.contents = <<72, 101, 98>>
       /\ last.instr.string.length = 4

\* The print with the words 0x11AA, 0x9CA5 has been decoded.
C20_Witness ==
    /\ Is11AA
    /\ last.instr.string.some
    /\ last.instr.length = 5

\* The words 0x3551, 0xC685 (the codes 13, 10, 17, 17, 20, 5) decode to
\* "hello".
C20_HelloWords ==
    (Decoded /\ CodeIs(<<178, 53, 81, 198, 133>>))
    => last.instr.string.contents = <<104, 101, 108, 108, 111>>

\* ------------------------------------------------------------------------
\* Properties
\* ------------------------------------------------------------------------

\* The defaults of property 4, which no object has: 0, a low byte alone,
\* and high bytes that read as the size byte of a property of length 1
\* (0x01), 2 (0x2A), 3 (0x40) and 8 (0xFF).
DefaultMenu == {0, 7, 256, 10757, 16384, 65535}
\* The property block of object 2: the name, a property 6 of 3 bytes, the
\* end.
LongBlock == <<1, 148, 165, 70, 18, 49, 50, 0, 0>>

InitProp ==
    \E d \in DefaultMenu :
        MachineNew(Overlay(Overlay(Image(ImageBytes(OpsParents, TRUE, AttrOf,
                                                    OpsGlobals, CallCode)),
                                   ObjectsBase + 3 * 2, W(d)),
                           PropAddr(2), LongBlock),
                   RoutineHeaders)

PropObjects == {0, 1, 2}
PropNumbers == {3, 4, 5, 6}

prop_get ==
    \E o \in PropObjects, y \in PropNumbers, st \in OpsStores :
        \E got \in Decode(<<17, o, y, st>>, "get_prop") :
            Apply(got.m, got.i, Exec_get_prop(got.s, got.i))
prop_put ==
    \E o \in PropObjects, y \in PropNumbers :
        \E got \in Decode(EncVar(224, 3, <<Small(o), Small(y),
                                         Large(4660)>>), "put_prop") :
            Apply(got.m, got.i, Exec_put_prop(got.s, got.i))
prop_next ==
    \E o \in PropObjects, y \in PropNumbers \cup {0}, st \in OpsStores :
        \E got \in Decode(<<19, o, y, st>>, "get_next_prop") :
            Apply(got.m, got.i, Exec_get_next_prop(got.s, got.i))

NextProp ==
    \/ OpsFit /\ call_entry
    \/ OpsFit /\ push
    \/ OpsFit /\ prop_get
    \/ OpsFit /\ prop_put
    \/ OpsFit /\ prop_next

SpecProp == InitProp /\ [][NextProp]_vars

\* A step that executes a property opcode on an object of the story file,
\* the object and the property number it names, and the properties of the
\* object's block in the image the step starts in: the block is at the
\* address in the object's entry, after the byte that counts the words of
\* the name and the name.
PropStep(names) ==
    /\ StepName \in names
    /\ StepArgs.ok
    /\ StepArgs.vals[1] \in 1 .. NumObjects
PropO == StepArgs.vals[1]
PropP == StepArgs.vals[2]
BlockAddr == read_u16(mem, EntriesBase + (PropO - 1) * OBJECT_SIZE + 7)
PropsOf == PropList(mem, BlockAddr + 1 + 2 * mem[BlockAddr]).props
HasProp == \E k \in DOMAIN PropsOf : PropsOf[k].index = PropP
TheProp == PropsOf[CHOOSE k \in DOMAIN PropsOf : PropsOf[k].index = PropP]
DefaultOf(p) == read_u16(mem, read_u16(mem, 10) + (p - 1) * 2)

\* What get_prop stores: the payload of the property, a payload of one
\* byte zero-extended, or the default word.
GetPropValue ==
    IF HasProp
    THEN IF TheProp.length = 1 THEN mem[TheProp.offset + 1]
         ELSE read_u16(mem, TheProp.offset + 1)
    ELSE DefaultOf(PropP)

\* C21: get_prop(O, p) stores the default word of p when O has no property
\* p, whatever the word, and the payload when it has, a payload of one
\* byte being zero-extended.
C21_GetProp ==
    [][(PropStep({"get_prop"}) /\ PropP \in 1 .. NUM_DEFAULTS
          /\ (HasProp => TheProp.length \in {1, 2}))
       => /\ StoredResult
          /\ WritesOf("instruction")[1].val = GetPropValue]_vars

\* The same for the properties the object has and for the defaults whose
\* high byte is 0.
C21_PresentOrLowDefault ==
    [][(PropStep({"get_prop"}) /\ PropP \in 1 .. NUM_DEFAULTS
          /\ (HasProp => TheProp.length \in {1, 2})
          /\ (~HasProp => DefaultOf(PropP) < 256))
       => /\ StoredResult
          /\ WritesOf("instruction")[1].val = GetPropValue]_vars

\* What get_prop does with a default whose high byte h is not 0: the high
\* byte is read as a size byte.  Below 32 the low byte alone is stored;
\* from 32 to 63 the word one byte further; from 64 on nothing, the read
\* panics.
C21_HighDefault ==
    [][(PropStep({"get_prop"}) /\ PropP \in 1 .. NUM_DEFAULTS /\ ~HasProp
          /\ DefaultOf(PropP) >= 256)
       => IF DefaultOf(PropP) < 32 * 256
          THEN /\ StoredResult
               /\ WritesOf("instruction")[1].val = DefaultOf(PropP) % 256
          ELSE IF DefaultOf(PropP) < 64 * 256
          THEN /\ StoredResult
               /\ WritesOf("instruction")[1].val
                     = read_u16(mem, read_u16(mem, 10) + (PropP - 1) * 2 + 1)
          ELSE mstate' = "Panic" /\ last'.rw = <<>>]_vars

\* C22: get_prop and put_prop on a property whose size byte gives a length
\* other than 1 or 2 end in Break, and finished is set.
C22_LongPropertyBreaks ==
    [][(PropStep({"get_prop", "put_prop"}) /\ HasProp
          /\ TheProp.length \notin {1, 2})
       => mstate' = "Break" /\ finished']_vars

\* On such a property get_prop and put_prop panic: nothing is stored,
\* nothing is written, finished is not set.
C22_LongPropertyPanics ==
    [][(PropStep({"get_prop", "put_prop"}) /\ HasProp
          /\ TheProp.length \notin {1, 2})
       => /\ mstate' = "Panic"
          /\ ~finished'
          /\ last'.rw = <<>>
          /\ mem' = ImageBefore]_vars

\* C29: get_next_prop(obj, 0) stores the index of the first property of
\* obj; get_next_prop(obj, i) for a property i of obj stores the index of
\* the property after i in the block, 0 after the last; for an i that obj
\* does not have it ends in Break and stores nothing.
C29_GetNextProp ==
    [][PropStep({"get_next_prop"})
       => IF PropP = 0
          THEN PropsOf # <<>>
                 => /\ StoredResult
                    /\ WritesOf("instruction")[1].val = PropsOf[1].index
          ELSE IF HasProp
          THEN /\ StoredResult
               /\ \E k \in DOMAIN PropsOf :
                     /\ PropsOf[k].index = PropP
                     /\ WritesOf("instruction")[1].val =
                            IF k < Len(PropsOf) THEN PropsOf[k + 1].index
                            ELSE 0
          ELSE /\ mstate' = "Break"
               /\ finished'
               /\ last'.rw = <<>>
               /\ mem' = ImageBefore
               /\ stack' = StepArgs.s.stack]_vars

\* get_next_prop(1, 5) has stored 3, the property after 5, in G00.
C29_Witness ==
    /\ mstate = "Continue"
    /\ LastName = "get_next_prop"
    /\ LastArg(1) = 1
    /\ LastArg(2) = 5
    /\ last.rw = <<[storage |-> RetVariable(16), val |-> 3, stored |-> TRUE,
                    of |-> "instruction"]>>
    /\ read_u16(mem, GlobalsBase) = 3

\* ------------------------------------------------------------------------
\* "store": story files of at most three instructions, pushes and a call of
\* the routine with two locals before a store whose first operand is a
\* constant or a variable. G00 holds the number of a variable: the stack,
\* the second local, G01, or a word whose low byte is the number of G00.
StoreTargets == {0, 2, 17, 272}
MaxStore == 3
MaxStoreStack == 3
StoreFit ==
    /\ Cardinality(program \cup {ip}) <= MaxStore
    /\ program # {} => Name(last.instr) \in {"call", "push"}

InitStore ==
    \E g \in StoreTargets :
        MachineNew(Image(ImageBytes(OpsParents, TRUE, AttrOf,
                                    <<g>> \o [k \in 1 .. NumGlobals - 1 |-> 1],
                                    CallCode)),
                   RoutineHeaders)

store_push ==
    /\ StoreFit
    /\ Len(stack) < MaxStoreStack
    /\ \E x \in {0, 1, 17} :
           \E got \in Decode(<<232, 127, x>>, "push") :
               Apply(got.m, got.i, Exec_push(got.s, got.i))
store_call ==
    /\ StoreFit
    /\ frames = <<>>
    /\ Len(stack) < MaxStoreStack - 1
    /\ \E got \in Decode(<<224, 63, 0, Pack(R2), 0>>, "call") :
           Apply(got.m, got.i, call(got.s, got.i))
store_var ==
    /\ StoreFit
    /\ \E x \in {Small(0), Small(1), Small(17), Large(272),
                 Variable(0), Variable(1), Variable(16), Variable(17)},
          y \in {Small(9), Large(4660), Variable(0)} :
           \E got \in Decode(Enc2(13, x, y), "store") :
               Apply(got.m, got.i, Exec_store(got.s, got.i))

NextStore ==
    \/ store_push
    \/ store_call
    \/ store_var

SpecStore == InitStore /\ [][NextStore]_vars

\* A step that executes store with both operands readable; the fields after
\* operand 0 was looked at, the variable number it gives, the fields after
\* operand 1 was read and its value.
StoreStep ==
    /\ StepName = "store"
    /\ Len(StepInstr.args) = 2
    /\ StepArgs.ok
StoreFirst == StepInstr.args[1]
AfterFirst ==
    IF StoreFirst.tag = "Variable" THEN read_var(Cur(mem), StoreFirst).s
    ELSE Cur(mem)
StoreTarget ==
    IF StoreFirst.tag = "Variable"
    THEN read_var(Cur(mem), StoreFirst).val % 256
    ELSE StoreFirst.v % 256
StoreVal == read_var(AfterFirst, StepInstr.args[2]).val
BeforeWrite == read_var(AfterFirst, StepInstr.args[2]).s.stack
\* The words of the evaluation stack above the locals of the current
\* routine.
EvalDepth ==
    Len(BeforeWrite)
    - (IF frames = <<>> THEN 0
       ELSE Top(frames).stack_start + Top(frames).num_locals)
\* The operands popped words of the evaluation stack only, and the target
\* is a variable the story file has: the stack with a word on it, a local
\* of the current routine, a global of the table.
TargetExists ==
    /\ EvalDepth >= 0
    /\ \/ StoreTarget = 0 /\ EvalDepth > 0
       \/ StoreTarget \in 1 .. 15 /\ frames # <<>>
             /\ StoreTarget <= Top(frames).num_locals
       \/ StoreTarget \in 16 .. 15 + NumGlobals

C26_EmptyStackGrows ==
    [][StoreStep /\ StoreTarget = 0 /\ BeforeWrite = <<>> =>
        stack' = <<StoreVal>>]_vars

\* ------------------------------------------------------------------------
\* ZString decoding: the packed string of a print instruction
\* ------------------------------------------------------------------------

\* The words of a packed string with the codes cs, three to a word, the
\* top bit set in the last word.
RECURSIVE PackCodes(_)
PackCodes(cs) ==
    LET w == cs[1] * 1024 + cs[2] * 32 + cs[3]
    IN  IF Len(cs) = 3 THEN W(w + 32768)
        ELSE W(w) \o PackCodes(SubSeq(cs, 4, Len(cs)))

\* The strings decoded: a shift code, then a letter, a space, a shift or
\* the escape code, then a letter; a shift code, an abbreviation and a
\* letter; the escape of alphabet A2 with every pair of codes.
StringCodes ==
    {<<a, b, c>> : a \in {4, 5}, b \in {0, 4, 5, 6, 7, 13, 31},
                   c \in {6, 7, 20, 31}}
    \cup {<<a, 1, 0, c, 5, 5>> : a \in {4, 5}, c \in {7, 13}}
    \cup {<<5, 6, c2, c3, 5, 5>> : c2 \in 0 .. 31, c3 \in 0 .. 31}

\* The abbreviation table of the story file, of one entry, and the
\* abbreviation it names: "hi" (the codes 13, 14, 5).
AbbrevTable == CodeBase + 6
AbbrevText == CodeBase + 8
StringImage(cs) ==
    Overlay(Overlay(Image(ImageBytes(OpsParents, TRUE, AttrOf, OpsGlobals,
                                     Pad(<<178>> \o PackCodes(cs)))),
                    24, W(AbbrevTable)),
            AbbrevTable, W(AbbrevText \div 2) \o PackCodes(<<13, 14, 5>>))

InitString ==
    \E cs \in StringCodes :
        MachineNew(StringImage(cs), CodeBase .. CodeBase + DecodeLen - 1)

\* Machine::decode on the print at ip: the instruction with its string, or
\* the panic of ZString::with_bytes.
decode_string ==
    /\ ~finished
    /\ last = NoLast
    /\ mstate = "Continue"
    /\ IF InstructionNew(mem, ip).ok
       THEN /\ last' = [instr |-> InstructionNew(mem, ip), rw |-> <<>>]
            /\ mstate' = mstate
       ELSE /\ last' = last
            /\ mstate' = "Panic"
    /\ UNCHANGED <<mem, stack, frames, ip, finished, header,
                   overflow_checks, known, calls, obj0, program, idle, io,
                   dictionary>>

NextString == decode_string

SpecString == InitString /\ [][NextString]_vars

\* The codes of the packed string at ip + 1, and the text decoded from it.
TextCodes == ZWords(mem, ip + 1, 0).bytes
Text == last.instr.string.contents
PrintDecoded == Decoded /\ Prints(last.instr) /\ last.instr.offset = ip
\* The string starts with a shift code followed by a letter code that is
\* not the escape; by a space; by an abbreviation.
ShiftThenLetter ==
    /\ TextCodes[1] \in {4, 5}
    /\ TextCodes[2] \in 6 .. 31
    /\ ~(TextCodes[1] = 5 /\ TextCodes[2] = 6)
ShiftThenSpace == TextCodes[1] \in {4, 5} /\ TextCodes[2] = 0
ShiftThenAbbrev == TextCodes[1] \in {4, 5} /\ TextCodes[2] \in {1, 2, 3}

\* C27: a shift code affects the one code that follows it: after a shift
\* code and a letter, a space or an abbreviation, the next letter code is
\* decoded in alphabet A0.
C27_ShiftOnce ==
    PrintDecoded =>
        /\ (ShiftThenLetter \/ ShiftThenSpace) /\ TextCodes[3] \in 6 .. 31
              => /\ Len(Text) = 2
                 /\ Text[2] = AlphabetZero[TextCodes[3] + 1]
        /\ ShiftThenAbbrev /\ Len(TextCodes) > 3 /\ TextCodes[4] \in 6 .. 31
              => /\ Len(Text) > 0
                 /\ Text[Len(Text)] = AlphabetZero[TextCodes[4] + 1]
\* The part of C27 that holds: after a shift code and a letter, the next
\* letter code is decoded in alphabet A0.
C27_AfterLetter ==
    (PrintDecoded /\ ShiftThenLetter /\ TextCodes[3] \in 6 .. 31)
        => /\ Len(Text) = 2
           /\ Text[1] = Alphabet(TextCodes[1] - 3)[TextCodes[2] + 1]
           /\ Text[2] = AlphabetZero[TextCodes[3] + 1]
\* After a shift code and a space or an abbreviation, the next letter code
\* is decoded in the alphabet of the shift.
C27_ShiftOutlastsSpace ==
    PrintDecoded =>
        /\ ShiftThenSpace /\ TextCodes[3] \in 6 .. 31
              => Text = <<32, Alphabet(TextCodes[1] - 3)[TextCodes[3] + 1]>>
        /\ ShiftThenAbbrev /\ Len(TextCodes) > 3 /\ TextCodes[4] \in 7 .. 31
              => Text = <<104, 105,
                          Alphabet(TextCodes[1] - 3)[TextCodes[4] + 1]>>

\* The escape of alphabet A2: the codes 5, 6, c2, c3 and the character
\* they name.
IsEscape == Len(TextCodes) = 6 /\ TextCodes[1] = 5 /\ TextCodes[2] = 6
EscapeChar == ((TextCodes[3] * 32) + (TextCodes[4] % 32)) % 256
\* C28, the escape: the codes 5, 6, c2, c3 of a print are decoded, and
\* they append the one character ((c2 << 5) | (c3 & 0x1F)) mod 256.
C28_Escape ==
    [][(last = NoLast /\ IsEscape)
        => /\ mstate' = "Continue"
           /\ last'.instr.ok
           /\ last'.instr.string.contents = <<EscapeChar>>]_vars
\* The part that holds: a character below 128 is appended, a character
\* from 128 on panics.
C28_EscapeAscii ==
    [][(last = NoLast /\ IsEscape)
        => IF EscapeChar < 128
           THEN /\ mstate' = "Continue"
                /\ last'.instr.string.contents = <<EscapeChar>>
           ELSE mstate' = "Panic" /\ last' = last]_vars

\* C28, print_char: print_char(c) with a readable operand writes its
\* character and the machine goes on.
C28_PrintChar ==
    [][(StepName = "print_char" /\ StepArgs.ok) => mstate' = "Continue"]_vars
\* The part that holds: a character below 128 is written, a character from
\* 128 on panics.
C28_PrintCharAscii ==
    [][(StepName = "print_char" /\ StepArgs.ok)
        => mstate' = (IF StepArgs.vals[1] % 256 < 128 THEN "Continue"
                      ELSE "Panic")]_vars

\* ------------------------------------------------------------------------
\* "sread": a story file that reads a line.  The dictionary follows the
\* code, the text buffer and the parse buffer are in dynamic memory.
\* ------------------------------------------------------------------------

ReadCodeLen == 10
ReadDict == CodeBase + ReadCodeLen
TextBuffer == 64
ParseBuffer == 80

\* The dictionary: the separator ",", entries of DictEntryLength bytes (4
\* of text, the others of data), and the words "go", "travel", "a" and
\* "go" again.
DictTexts ==
    <<<<103, 111>>, <<116, 114, 97, 118, 101, 108>>, <<97>>, <<103, 111>>>>
DictEntries ==
    <<<<12, 20, 5, 5, 5, 5>>, <<25, 23, 6, 27, 10, 17>>,
      <<6, 5, 5, 5, 5, 5>>, <<12, 20, 5, 5, 5, 5>>>>
DictSeparators == <<44>>
DictEntryLength == 5
DictBytes ==
    <<Len(DictSeparators)>> \o DictSeparators
    \o <<DictEntryLength>> \o W(Len(DictEntries))
    \o Flatten([k \in DOMAIN DictEntries |->
                    PackCodes(DictEntries[k])
                    \o [j \in 1 .. DictEntryLength - 4 |-> k]])

\* The lines typed: "go go", "at a", "a  go", ",a", "go,a", "Travels a",
\* " go ", "gone", "a,,a", and their prefixes, the empty line included.
Lines ==
    {<<103, 111, 32, 103, 111>>, <<97, 116, 32, 97>>,
     <<97, 32, 32, 103, 111>>, <<44, 97>>, <<103, 111, 44, 97>>,
     <<84, 114, 97, 118, 101, 108, 115, 32, 97>>, <<32, 103, 111, 32>>,
     <<103, 111, 110, 101>>, <<97, 44, 44, 97>>}
Keys == {13, 32, 44, 84, 97, 101, 103, 108, 110, 111, 114, 115, 116, 118}

\* The bytes 0 of the two buffers: the length of the text buffer and the
\* number of entries of the parse buffer.
TextSizes == {12, 3}
ParseSizes == {3, 1}

ReadImage(tmax, pmax) ==
    Overlay(Overlay(Overlay(
        Image(ImageBytes(OpsParents, TRUE, AttrOf, OpsGlobals,
                         [k \in 1 .. ReadCodeLen |-> 0] \o DictBytes)),
        8, W(ReadDict)),
        TextBuffer, <<tmax>>),
        ParseBuffer, <<pmax>>)

InitRead ==
    \E tmax \in TextSizes, pmax \in ParseSizes :
        MachineNew(ReadImage(tmax, pmax),
                   ReadDict .. ReadDict + Len(DictBytes) - 1)

\* key_pressed: a key arrives at the port, in whatever state it is, and
\* ZIO::key_down takes or drops it.  The keys taken spell a prefix of one
\* of the lines.
key_down ==
    /\ \E key \in Keys :
           /\ (io.state = "Listening" /\ key # 13)
                  => \E l \in Lines : StartsWith(l, Append(io.input, key))
           /\ io' = KeyDown(io, key)
    /\ UNCHANGED <<mem, stack, frames, ip, finished, header, mstate,
                   overflow_checks, known, last, calls, obj0, program, idle,
                   dictionary>>

\* The story file pushes the addresses of the buffers and reads a line
\* with them, or reads a line with the addresses as constants.
ReadFit ==
    /\ Cardinality(program \cup {ip}) <= 3
    /\ (program # {} /\ ip \notin program) => Name(last.instr) = "push"
read_push ==
    /\ ReadFit
    /\ Len(stack) < 2
    /\ \E x \in {TextBuffer, ParseBuffer} :
           \E got \in Decode(<<232, 127, x>>, "push") :
               Apply(got.m, got.i, Exec_push(got.s, got.i))
read_line ==
    /\ ReadFit
    /\ \E args \in {<<Small(TextBuffer), Small(ParseBuffer)>>,
                    <<Variable(0), Variable(0)>>} :
           \E got \in Decode(EncVar(224, 4, args), "sread") :
               Apply(got.m, got.i, Exec_sread(got.s, got.i))

NextRead ==
    \/ read_push
    \/ read_line
    \/ key_down

SpecRead == InitRead /\ [][NextRead]_vars

\* A step of key_down, and a step that executes sread without and with a
\* line ready at the port.
KeyStep == io.state = "Listening" /\ io' # io
NoLineStep == ~KeyStep /\ StepName = "sread" /\ io.state # "Consuming"
LineStep ==
    /\ ~KeyStep
    /\ StepName = "sread"
    /\ io.state = "Consuming"
    /\ StepArgs.ok

\* C23: sread executed while the port has no line returns GetInput and
\* leaves ip, the image, the evaluation stack and the frames as they were,
\* no operand read and nothing written, so that the instruction at ip is
\* the same sread; and a step that returns GetInput executes sread.
C23_GetInput ==
    [][/\ NoLineStep =>
            /\ mstate' = "GetInput"
            /\ ~finished'
            /\ ip' = ip
            /\ mem' = ImageBefore
            /\ stack' = stack
            /\ frames' = frames
            /\ last'.rw = <<>>
            /\ InstructionNew(mem', ip') = last'.instr
       /\ (~KeyStep /\ mstate' = "GetInput") => StepName = "sread"]_vars
\* In the story files of every opcode, a step that returns GetInput
\* executes sread.
C23_OnlySread ==
    [][mstate' = "GetInput" => StepName = "sread"]_vars
\* sread with both operands on the stack returned GetInput: the two words
\* pushed are still on the stack and the port listens.
C23_Witness ==
    /\ mstate = "GetInput"
    /\ LastName = "sread"
    /\ last.instr.args = <<Variable(0), Variable(0)>>
    /\ ip = last.instr.offset
    /\ stack = <<ParseBuffer, TextBuffer>>
    /\ io.state = "Listening"

\* The line a step of sread reads, trimmed and in lower case, its pieces
\* between the delimiters (the space and the separators of the
\* dictionary), and where the k-th piece starts, counted from 1.
Typed == ToLowercase(Trim(io.input))
Delims == {32} \cup {DictSeparators[k] : k \in DOMAIN DictSeparators}
Pieces == Split(Typed, Delims)
RECURSIVE PieceStart(_)
PieceStart(k) ==
    IF k = 1 THEN 1 ELSE PieceStart(k - 1) + Len(Pieces[k - 1]) + 1
\* The maximal non-empty runs of characters that are not delimiters, by
\* the positions they start at.
RunStarts ==
    {a \in DOMAIN Typed :
        /\ Typed[a] \notin Delims
        /\ (a = 1 \/ Typed[a - 1] \in Delims)}
\* The parse buffer after the step: the number of entries and byte j of
\* the k-th entry.
ParseAt == StepArgs.vals[2]
Count == mem'[ParseAt + 1]
EntryByte(k, j) == mem'[ParseAt + 2 + 4 * (k - 1) + j]

\* C24: for every token sread records (a piece that is not empty), byte 3
\* of its entry is the position, counted from 1, at which the token starts
\* in the line, and byte 2 its length.
C24_TokenPosition ==
    [][LineStep =>
        /\ mstate' = "Continue"
        /\ \A k \in 1 .. Count :
               Pieces[k] # <<>> =>
                   /\ EntryByte(k, 2) = Len(Pieces[k])
                   /\ EntryByte(k, 3) = PieceStart(k)]_vars
\* What holds: byte 3 is the position of the first occurrence of the
\* token's text in the line.
C24_FirstOccurrence ==
    [][LineStep =>
        /\ mstate' = "Continue"
        /\ \A k \in 1 .. Count :
               /\ EntryByte(k, 2) = Len(Pieces[k])
               /\ EntryByte(k, 3) = Find(Typed, Pieces[k]) + 1]_vars

\* The entry of the dictionary a token matches, by the texts of the
\* entries: an entry of 6 characters matches the tokens that start with
\* it, a shorter one the token equal to it; the address of the first entry
\* that matches, or 0.
EntryMatches(e, token) ==
    IF Len(DictTexts[e]) = 6 THEN StartsWith(token, DictTexts[e])
    ELSE token = DictTexts[e]
EntryAddr(e) ==
    ReadDict + Len(DictSeparators) + 4 + (e - 1) * DictEntryLength
DictAddr(token) ==
    IF \A e \in DOMAIN DictTexts : ~EntryMatches(e, token) THEN 0
    ELSE EntryAddr(CHOOSE e \in DOMAIN DictTexts :
                       /\ EntryMatches(e, token)
                       /\ \A h \in 1 .. e - 1 : ~EntryMatches(h, token))

\* C25: the word sread records for a token is the address in the image of
\* the first entry of the dictionary, in table order, that matches it, and
\* 0 when no entry matches.
C25_Lookup ==
    [][LineStep =>
        /\ mstate' = "Continue"
        /\ \A k \in 1 .. Count :
               EntryByte(k, 0) * 256 + EntryByte(k, 1) = DictAddr(Pieces[k])]_vars
\* "Travels a" was read: "travels" has the address of "travel", "a" that
\* of "a".
C25_Witness ==
    /\ LastName = "sread"
    /\ mstate = "Continue"
    /\ last.instr.args = <<Small(TextBuffer), Small(ParseBuffer)>>
    /\ io.input = <<84, 114, 97, 118, 101, 108, 115, 32, 97>>
    /\ mem[ParseBuffer + 1] = 2
    /\ read_u16(mem, ParseBuffer + 2) = EntryAddr(2)
    /\ read_u16(mem, ParseBuffer + 6) = EntryAddr(3)

\* C30: the number of entries sread writes is the smaller of the size of
\* the parse buffer and the number of maximal non-empty runs of characters
\* that are not delimiters, and no entry has the length 0.
C30_TokensAreRuns ==
    [][LineStep =>
        /\ mstate' = "Continue"
        /\ Count = Min(mem[ParseAt], Cardinality(RunStarts))
        /\ \A k \in 1 .. Count : EntryByte(k, 2) # 0]_vars
\* What holds: sread counts the pieces between the delimiters, the empty
\* ones included.
C30_CountsPieces ==
    [][LineStep =>
        /\ mstate' = "Continue"
        /\ Count = Min(mem[ParseAt], Len(Pieces))
        /\ \A k \in 1 .. Count : EntryByte(k, 2) = Len(Pieces[k])]_vars

\* ------------------------------------------------------------------------
\* "inc_chk" and "dec_chk": story files that push a word or call the
\* routine with two locals, then increment or decrement a variable named
\* by a constant: the stack, the first local, G00.
\* ------------------------------------------------------------------------

\* The words of the variables and of the second operand: 0, 1, the largest
\* and the smallest i16, -1 and -2.
ChkWords == {0, 1, 32767, 32768, 65535, 65534}
\* The branch descriptors: one byte, the offset 5, on true and on false.
ChkBranches == {197, 69}
ChkVariables == {Small(0), Small(1), Small(16)}

InitChk ==
    \E g \in ChkWords :
        MachineNew(Image(ImageBytes(OpsParents, TRUE, AttrOf,
                                    <<g>> \o [k \in 1 .. NumGlobals - 1 |-> 1],
                                    CallCode)),
                   RoutineHeaders)

chk_push ==
    /\ StoreFit
    /\ Len(stack) < MaxStoreStack
    /\ \E w \in ChkWords :
           \E got \in Decode(EncVar(224, 8, <<Large(w)>>), "push") :
               Apply(got.m, got.i, Exec_push(got.s, got.i))
chk_inc ==
    /\ StoreFit
    /\ \E x \in ChkVariables, w \in ChkWords, b \in ChkBranches :
           \E got \in Decode(Enc2(5, x, IF w < 256 THEN Small(w) ELSE Large(w))
                             \o <<b>>, "inc_chk") :
               Apply(got.m, got.i, Exec_chk(got.s, got.i, 1))
chk_dec ==
    /\ StoreFit
    /\ \E x \in ChkVariables, w \in ChkWords, b \in ChkBranches :
           \E got \in Decode(Enc2(4, x, IF w < 256 THEN Small(w) ELSE Large(w))
                             \o <<b>>, "dec_chk") :
               Apply(got.m, got.i, Exec_chk(got.s, got.i, -1))

NextChk ==
    \/ chk_push
    \/ store_call
    \/ chk_inc
    \/ chk_dec

SpecChk == InitChk /\ [][NextChk]_vars

\* A step that executes inc_chk or dec_chk on a variable the story file
\* has: the stack with a word on it, a local of the current routine, a
\* global of the table.
ChkVar == StepInstr.args[1].v
ChkStep ==
    /\ StepName \in {"inc_chk", "dec_chk"}
    /\ Len(StepInstr.args) = 2
    /\ StepInstr.args[1].tag = "Small"
    /\ StepInstr.args[2].tag \in {"Small", "Large"}
    /\ \/ ChkVar = 0
          /\ Len(stack) > (IF frames = <<>> THEN 0
                           ELSE Top(frames).stack_start + Top(frames).num_locals)
       \/ ChkVar \in 1 .. 15 /\ frames # <<>>
             /\ ChkVar <= Top(frames).num_locals
       \/ ChkVar \in 16 .. 15 + NumGlobals
\* The value of the variable before the step, the value the step is to
\* leave, and the condition of the branch.
ChkD == IF StepName = "inc_chk" THEN 1 ELSE -1
ChkOld == read_var(Cur(mem), Indirect(ChkVar)).val
ChkNew == (ChkOld + ChkD) % 65536
ChkCond ==
    IF StepName = "inc_chk"
    THEN AsI16(ChkNew) > AsI16(StepInstr.args[2].v)
    ELSE AsI16(ChkNew) < AsI16(StepInstr.args[2].v)
ChkDone ==
    /\ mstate' = "Continue"
    /\ frames' = frames
    /\ read_var([Cur(mem') EXCEPT !.stack = stack'], Indirect(ChkVar)).val
          = ChkNew
    /\ ChkVar = 0 => Len(stack') = Len(stack)
    /\ ChkVar # 0 => stack' = (IF ChkVar >= 16 THEN stack
                               ELSE [stack EXCEPT
                                        ![Top(frames).stack_start + ChkVar] = ChkNew])
    /\ ip' = IF ChkCond = StepInstr.compare.v
             THEN BranchA + BranchL + BranchK - 2
             ELSE BranchA + BranchL
\* The sum does not fit an i16 and the build checks overflow.
ChkOverflows ==
    /\ overflow_checks
    /\ \/ StepName = "inc_chk" /\ ChkOld = 32767
       \/ StepName = "dec_chk" /\ ChkOld = 32768

\* C31: inc_chk (dec_chk) replaces the value v of the named variable by
\* v + 1 (v - 1) modulo 2^16, leaves the depth of the stack unchanged when
\* the variable is 0, and branches exactly when the new value, as a signed
\* word, is greater (less) than the signed second operand, for every v.
C31_IncDecChk ==
    [][ChkStep => ChkDone]_vars
\* What holds: the same, but for 0x7FFF (inc_chk) and 0x8000 (dec_chk) in
\* a build that checks overflow.
C31_ExceptOverflow ==
    [][(ChkStep /\ ~ChkOverflows) => ChkDone]_vars
\* In a build that checks overflow inc_chk on 0x7FFF and dec_chk on 0x8000
\* panic and write nothing.
C31_OverflowPanics ==
    [][(ChkStep /\ ChkOverflows)
       => /\ mstate' = "Panic"
          /\ stack' = stack
          /\ mem' = ImageBefore]_vars

\* ------------------------------------------------------------------------
\* The object tree as an invariant, and what the tree opcodes leave alone
\* ------------------------------------------------------------------------

\* Object d is o or a descendant of o in the image m: the parent links
\* from d lead to o in at most n steps.
RECURSIVE Inside(_, _, _, _)
Inside(m, d, o, n) ==
    IF d = o THEN TRUE
    ELSE IF d \notin Objects \/ n = 0 THEN FALSE
    ELSE Inside(m, Parent(m, d), o, n - 1)

\* A step that executes remove_obj(O) or insert_obj(O, D) on a well-formed
\* tree, the operands objects of the table and O different from D.
TreeO == LastArg(1)'
TreeD == IF LastName' = "insert_obj" THEN LastArg(2)' ELSE 0
TreeStep ==
    /\ LastName' \in {"insert_obj", "remove_obj"}
    /\ last'.instr.offset = ip
    /\ TreeO \in Objects
    /\ LastName' = "insert_obj" => (TreeD \in Objects /\ TreeD # TreeO)
    /\ WellFormed(mem)

\* C32: from a well-formed tree, remove_obj(O) and insert_obj(O, D) with D
\* outside the subtree of O complete and leave a well-formed tree.
C32_TreeStaysWellFormed ==
    [][(TreeStep /\ (TreeD # 0 => ~Inside(mem, TreeD, TreeO, NumObjects)))
       => (mstate' = "Continue" /\ WellFormed(mem'))]_vars
\* insert_obj(O, D) has run after another tree opcode, O has children and
\* D has several, and the tree is well formed.
C32_Witness ==
    /\ LastName = "insert_obj"
    /\ mstate = "Continue"
    /\ Cardinality(program) = 2
    /\ LastArg(1) \in Objects /\ LastArg(2) \in Objects
    /\ Child(mem, LastArg(2)) = LastArg(1)
    /\ Child(mem, LastArg(1)) # 0
    /\ Sibling(mem, LastArg(1)) # 0
    /\ WellFormed(mem)
\* With D inside the subtree of O, insert_obj(O, D) makes a cycle of
\* parent links.
C32_InsideMakesCycle ==
    [][(TreeStep /\ TreeD # 0 /\ Inside(mem, TreeD, TreeO, NumObjects))
       => ~WellFormed(mem')]_vars

\* The object whose sibling link is O, or 0.
PrevSibling(m, o) ==
    IF \E k \in Objects : Sibling(m, k) = o
    THEN CHOOSE k \in Objects : Sibling(m, k) = o
    ELSE 0
\* The attribute words and the property pointer of the entry of k.
EntryRest(m, k) ==
    <<read_u16(m, ObjectAddr(m, k)), read_u16(m, ObjectAddr(m, k) + 2),
      read_u16(m, ObjectAddr(m, k) + 7)>>
Links(m, k) == <<Parent(m, k), Sibling(m, k), Child(m, k)>>

PutStep == PropStep({"put_prop"}) /\ PropP \in 1 .. NUM_DEFAULTS
PutVal == StepArgs.vals[3]
\* The image with v written as a payload of len bytes after the size byte
\* at a: the low byte of v, or v big-endian.
WithPayload(a, len, v) ==
    IF len = 1 THEN [ImageBefore EXCEPT ![a + 1] = v % 256]
    ELSE [ImageBefore EXCEPT ![a + 1] = v \div 256, ![a + 2] = v % 256]
\* The address of the default word of p.
DefaultAddr(p) == read_u16(mem, 10) + (p - 1) * 2

\* C36: put_prop(O, p, v) changes only the payload of property p in the
\* block of O, the low byte of v for a payload of one byte and v big-endian
\* for one of two; when O has no property p no byte changes.
C36_PutProp ==
    [][(PutStep /\ (HasProp => TheProp.length \in {1, 2}))
       => mem' = IF HasProp
                 THEN WithPayload(TheProp.offset, TheProp.length, PutVal)
                 ELSE ImageBefore]_vars
\* When O has property p, of 1 or 2 bytes, the step completes and only
\* the payload changes.
C36_PresentPayload ==
    [][(PutStep /\ HasProp /\ TheProp.length \in {1, 2})
       => /\ mstate' = "Continue"
          /\ mem' = WithPayload(TheProp.offset, TheProp.length, PutVal)]_vars
\* When O has no property p, the default word of p is taken for a
\* property: its high byte is the size byte, and v is written over its low
\* byte, and over the high byte of the next default word when the size
\* byte gives the length 2; a longer length panics.
C36_AbsentWritesDefaults ==
    [][(PutStep /\ ~HasProp)
       => LET a == DefaultAddr(PropP)
              len == (mem[a] \div 32) + 1
          IN  IF len \in {1, 2}
              THEN /\ mstate' = "Continue"
                   /\ mem' = WithPayload(a, len, PutVal)
                   /\ mem' # ImageBefore
              ELSE /\ mstate' = "Panic"
                   /\ mem' = ImageBefore]_vars

\* ------------------------------------------------------------------------
\* The embedded port: which keys make the line
\* ------------------------------------------------------------------------

\* A step that leaves the machine as it was.
MachineSame ==
    UNCHANGED <<mem, stack, frames, ip, finished, mstate, known, last, calls,
                program>>
\* The text buffer of a step of sread.
TextAt == StepArgs.vals[1]

\* C34: a key that arrives while the port is in state None or Consuming
\* changes neither the line nor the state; the port changes only by the
\* poll of sread that moves it from None to Listening with an empty line,
\* by a key other than Enter that is added to the line while it listens,
\* by Enter that moves it to Consuming with the line as it is, and by the
\* sread that takes the line of the Consuming port, the line being then
\* the keys other than Enter pressed since that poll.
C34_KeysWhileListening ==
    [][/\ \A key \in Keys :
              io.state # "Listening" => KeyDown(io, key) = io
       /\ io' # io =>
            \/ /\ io.state = "None"
               /\ io' = [state |-> "Listening", input |-> <<>>]
               /\ StepName = "sread"
               /\ mstate' = "GetInput"
            \/ /\ io.state = "Listening"
               /\ MachineSame
               /\ \E key \in Keys \ {13} :
                      io' = [state |-> "Listening",
                             input |-> Append(io.input, key)]
            \/ /\ io.state = "Listening"
               /\ MachineSame
               /\ io' = [state |-> "Consuming", input |-> io.input]
            \/ /\ io.state = "Consuming"
               /\ io' = [state |-> "None", input |-> io.input]
               /\ StepName = "sread"
               /\ mstate' = "Continue"
               /\ (TextAt = TextBuffer /\ ParseAt = ParseBuffer)
                      => \A k \in 1 .. Min(mem[TextAt], Len(Typed)) :
                             mem'[TextAt + k] = Typed[k]]_vars
\* sread has taken the line `go,a`: the keys pressed while the port
\* listened are in the text buffer, and the port is in state None, where a
\* key is dropped.
C34_Witness ==
    /\ LastName = "sread"
    /\ mstate = "Continue"
    /\ io = [state |-> "None", input |-> <<103, 111, 44, 97>>]
    /\ mem[TextBuffer] >= 4
    /\ [k \in 1 .. 4 |-> mem[TextBuffer + k]] = <<103, 111, 44, 97>>
    /\ \A key \in Keys : KeyDown(io, key) = io

\* ------------------------------------------------------------------------
\* update and key_pressed interleaved
\* ------------------------------------------------------------------------

\* The lines typed, and the keys that arrive.
LiveLines == {<<103, 111>>, <<97, 44>>, <<32, 97>>}
LiveKeys == {13, 32, 44, 97, 103, 111}
MaxSreads == 2

InitLive ==
    MachineNew(ReadImage(12, 3), ReadDict .. ReadDict + Len(DictBytes) - 1)

\* key_pressed: a key arrives at the port, in whatever state it is.
key_pressed ==
    /\ \E key \in LiveKeys :
           /\ (io.state = "Listening" /\ key # 13)
                  => \E l \in LiveLines : StartsWith(l, Append(io.input, key))
           /\ io' = KeyDown(io, key)
    /\ UNCHANGED <<mem, stack, frames, ip, finished, header, mstate,
                   overflow_checks, known, last, calls, obj0, program, idle,
                   dictionary>>
\* update: Machine::step on a story file that reads one line after the
\* other, with the buffers as constants or taken from the stack.
update ==
    /\ Cardinality(program \cup {ip}) <= MaxSreads
    /\ \E args \in {<<Small(TextBuffer), Small(ParseBuffer)>>,
                    <<Variable(0), Variable(0)>>} :
           \E got \in Decode(EncVar(224, 4, args), "sread") :
               Apply(got.m, got.i, Exec_sread(got.s, got.i))

NextLive ==
    \/ update
    \/ key_pressed

\* The host calls update again and again: once a line is ready, the step
\* of the machine that takes it is eventually made.  Keys arrive at any
\* time, or never.
Resume == io.state = "Consuming" /\ update
SpecLive == InitLive /\ [][NextLive]_vars /\ WF_vars(Resume)

\* Enter was pressed while the port listened for the sread the machine is
\* suspended on, whose operands can be read.
LineReady ==
    /\ io.state = "Consuming"
    /\ mstate = "GetInput"
    /\ read_all(Cur(mem), last.instr.args, 1).ok
\* The sread completed: the port is back in state None and ip is past the
\* instruction.
LineTaken ==
    /\ LastName = "sread"
    /\ mstate = "Continue"
    /\ io.state = "None"
    /\ ip = last.instr.offset + last.instr.length
\* A step of the machine.
MachineStep == ~MachineSame

\* C35: once Enter was pressed for the sread the machine is suspended on,
\* the sread completes; the step of the machine that follows Enter is that
\* sread, it leaves the port in state None and ip past the sread; and an
\* sread that finds the port in state None takes no line: it suspends with
\* an empty line, so that a line is consumed by one sread only.
C35_EnterCompletes ==
    /\ LineReady ~> LineTaken
    /\ [][/\ (io.state = "Consuming" /\ MachineStep)
             => /\ mstate = "GetInput"
                /\ StepInstr = last.instr
                /\ StepName = "sread"
                /\ StepInstr.offset = ip
                /\ StepArgs.ok
                     => /\ mstate' = "Continue"
                        /\ io' = [state |-> "None", input |-> io.input]
                        /\ ip' = ip + StepInstr.length
          /\ (io.state = "None" /\ MachineStep /\ StepName = "sread")
             => /\ mstate' = "GetInput"
                /\ io' = [state |-> "Listening", input |-> <<>>]
                /\ ip' = ip
                /\ mem' = ImageBefore
          /\ (io.state = "Listening" /\ MachineStep)
             => /\ StepName = "sread"
                /\ mstate' = "GetInput"
                /\ io' = io
                /\ ip' = ip]_vars
\* A second sread has suspended after the first took the line `go`: the
\* port listens with an empty line and ip is at the second sread.
C35_Witness ==
    /\ LastName = "sread"
    /\ mstate = "GetInput"
    /\ Cardinality(program) = 2
    /\ ip = last.instr.offset
    /\ io = [state |-> "Listening", input |-> <<>>]
    /\ [k \in 1 .. 2 |-> mem[TextBuffer + k]] = <<103, 111>>

====
